---- MODULE Spec2Model ----
(***************************************************************************)
(* Axiom Protocol: Timechain consensus core.                               *)
(*                                                                         *)
(* The Timechain of src/chain.rs (block list, account state, difficulty,   *)
(* duplicate guard), its block validation, and the node handlers of        *)
(* src/main.rs that drive it: the blocks-topic handler, the chain-topic    *)
(* handler with the fork choice of validate_and_sync_chain, the periodic   *)
(* chain broadcast and the replay of the persisted chain at startup.       *)
(*                                                                         *)
(* Conventions.                                                            *)
(*  - Digests are collision-free encodings of what was hashed: a tuple     *)
(*    whose first element names the hash function.  [0u8; 32] is ZeroHash. *)
(*  - Rust vectors are TLA+ sequences, so blocks[1] is the genesis block   *)
(*    (Rust blocks[0]) and Len(blocks) is blocks.len().                    *)
(*  - Amounts are counted in whole AXM (SMALLEST_UNIT = 10^8 base units),  *)
(*    so that they stay inside TLC's integer range.                        *)
(*  - HashMaps with a default of zero (State.balances, State.nonces) are   *)
(*    total functions over Addresses.                                      *)
(***************************************************************************)
EXTENDS Integers, Sequences, FiniteSets, TLC

\* ------------------------------------------------------------------ bounds
\* Longest block list a Timechain may reach (genesis included).
MaxChainLen == 3
\* PoW nonces range over 0..MaxNonce.
MaxNonce == 3
\* Chain payloads that may be in flight to one node at a time.
MaxInFlight == 1
\* A State on its own: rewards credited to one address, and the account
\* nonce up to which transactions are applied.
MaxCredits == 2
MaxAcctNonce == 1
\* The reward schedule is evaluated around the era boundaries up to MaxEra.
MaxEra == 65
\* A Mempool on its own is built with a capacity in 0..MaxPoolSize.
MaxPoolSize == 2
\* The gossip gate: the clock runs to MaxClock seconds, a peer sends up to
\* MaxExcess messages past the rate limit in one window, and the second
\* peer up to MaxQuiet messages in one window.
MaxClock == 120
MaxExcess == 1
MaxQuiet == 1
\* Header histories for the LWMA: up to MaxHeaders headers at one interval,
\* followed by up to MaxTail headers at another.
MaxHeaders == 100
MaxTail == 30

\* transactions main's queue holds at most
MaxMempool == 2
\* last_vdf.elapsed() up to which time is let pass, and the seconds between
\* two readings of it
MaxElapsed == 3600
ElapseSecs == 1800
\* the largest value of a part of a digest, and the difficulties compared
DigestWordMax == 7
MaxDifficulty == 9

\* ------------------------------------------------------- protocol constants
TARGET_TIME == 1800
INITIAL_DIFFICULTY == 1000
INITIAL_REWARD == 50
\* INITIAL_REWARD = 5_000_000_000 base units, counted in units of 4 base
\* units: the reward schedule on its own, exact through the seventh halving.
INITIAL_REWARD_DIV4 == 1250000000
HALVING_INTERVAL == 1240000
SMALLEST_UNIT == 100000000
TOTAL_SUPPLY == 1240000000
\* chain.rs declares its own HALVING_INTERVAL and INITIAL_REWARD
\* (50_000_000_000 base units, 500 whole AXM); add_block does not read them.
CHAIN_HALVING_INTERVAL == 2100000
CHAIN_INITIAL_REWARD == 500
ZK_PROOF_LEN == 128
\* elapsed passed to add_block when a peer chain is validated / at startup
SYNC_ELAPSED == 1800
LOAD_ELAPSED == 3600
\* main, mining engine: seconds since last_vdf before an attempt starts, the
\* transactions a block takes, the nonces tried on the first blocks and
\* later (1_000_000 and 100_000 in the code, scaled to the nonce range) and
\* what a failed attempt takes off the difficulty, down to the floor
MINING_INTERVAL == 3600
MAX_TXS_PER_BLOCK == 100
EARLY_ATTEMPTS == 2
LATE_ATTEMPTS == 1
EARLY_BLOCKS == 2
FAILURE_STEP == 10
FAILURE_FLOOR == 10
\* elapsed passed to add_block for the blocks of a request-response answer
RESPONSE_ELAPSED == 3600
\* the address of the node's wallet
WalletAddress == 2
\* main, gossip event: messages per peer and window, window length in
\* seconds, and the count up to which a trusted peer's message is handled
RATE_LIMIT == 100
RATE_WINDOW == 60
TRUSTED_BURST == 15
\* seconds between two readings of the clock
TickSecs == 60
DEFAULT_MAX_SIZE == 100000
\* consensus/lwma.rs
TARGET_BLOCK_TIME == 1800
LWMA_WINDOW == 60
MIN_DIFFICULTY == 1000
\* MAX_ADJUSTMENT_FACTOR 3.0 and MIN_ADJUSTMENT_FACTOR 0.33, the latter in
\* hundredths
MAX_ADJUSTMENT_FACTOR == 3
MIN_ADJUSTMENT_PERCENT == 33
\* first timestamp of the test histories
TEST_EPOCH == 1700000000
DEFAULT_MAX_TX_SIZE == 100000

\* ------------------------------------------------------------ value domains
Nodes == {"n1", "n2"}
ZeroAddress == 0
Addresses == {0, 1, 2}
Nonces == 0..MaxNonce
ZeroHash == <<"zero">>
JunkHash == <<"junk">>
\* stand-in for u64::MAX: the 8 leading digest bytes are modelled on 31 bits
PrefixMax == 2147483646 + 1

Last(s) == s[Len(s)]
Max(a, b) == IF a >= b THEN a ELSE b
Min(a, b) == IF a <= b THEN a ELSE b

\* -------------------------------------------------------------- transactions
Tx(from, to, amount, fee, nonce) ==
    [from |-> from, to |-> to, amount |-> amount, fee |-> fee, nonce |-> nonce]

\* Transaction::validate(sender_balance): the balance check the tests exercise.
Validate(tx, sender_balance) == sender_balance >= tx.amount + tx.fee

\* --------------------------------------------------------------------- State
State_new == [balances |-> [a \in Addresses |-> 0],
              total_issued |-> 0,
              nonces |-> [a \in Addresses |-> 0]]

balance(st, addr) == st.balances[addr]

nonce(st, addr) == st.nonces[addr]

credit(st, addr, amount) ==
    [st EXCEPT !.balances[addr] = balance(st, addr) + amount]

apply_tx_NoFee(st, tx) ==
    LET sender_bal == balance(st, tx.from)
        sender_nonce == nonce(st, tx.from)
        cost == tx.amount + tx.fee
    IN  IF sender_bal < cost
        THEN [st |-> st, ok |-> FALSE, err |-> "Insufficient balance"]
        ELSE IF tx.nonce # sender_nonce
        THEN [st |-> st, ok |-> FALSE, err |-> "Invalid nonce"]
        ELSE LET s1 == [st EXCEPT !.balances[tx.from] = sender_bal - tx.amount]
                 s2 == credit(s1, tx.to, tx.amount)
                 s3 == [s2 EXCEPT !.nonces[tx.from] = sender_nonce + 1]
             IN  [st |-> s3, ok |-> TRUE, err |-> "none"]

apply_tx_KeepNonce(st, tx) ==
    LET sender_bal == balance(st, tx.from)
        sender_nonce == nonce(st, tx.from)
        cost == tx.amount + tx.fee
    IN  IF sender_bal < cost
        THEN [st |-> st, ok |-> FALSE, err |-> "Insufficient balance"]
        ELSE IF tx.nonce # sender_nonce
        THEN [st |-> st, ok |-> FALSE, err |-> "Invalid nonce"]
        ELSE LET s1 == [st EXCEPT !.balances[tx.from] = sender_bal - cost]
                 s2 == credit(s1, tx.to, tx.amount)
             IN  [st |-> s2, ok |-> TRUE, err |-> "none"]

apply_tx_CreditCost(st, tx) ==
    LET sender_bal == balance(st, tx.from)
        sender_nonce == nonce(st, tx.from)
        cost == tx.amount + tx.fee
    IN  IF sender_bal < cost
        THEN [st |-> st, ok |-> FALSE, err |-> "Insufficient balance"]
        ELSE IF tx.nonce # sender_nonce
        THEN [st |-> st, ok |-> FALSE, err |-> "Invalid nonce"]
        ELSE LET s1 == [st EXCEPT !.balances[tx.from] = sender_bal - cost]
                 s2 == credit(s1, tx.to, cost)
                 s3 == [s2 EXCEPT !.nonces[tx.from] = sender_nonce + 1]
             IN  [st |-> s3, ok |-> TRUE, err |-> "none"]

apply_tx_DebitFirst(st, tx) ==
    LET sender_bal == balance(st, tx.from)
        sender_nonce == nonce(st, tx.from)
        cost == tx.amount + tx.fee
        s1 == [st EXCEPT !.balances[tx.from] = sender_bal - cost]
    IN  IF sender_bal < cost
        THEN [st |-> st, ok |-> FALSE, err |-> "Insufficient balance"]
        ELSE IF tx.nonce # sender_nonce
        THEN [st |-> s1, ok |-> FALSE, err |-> "Invalid nonce"]
        ELSE LET s2 == credit(s1, tx.to, tx.amount)
                 s3 == [s2 EXCEPT !.nonces[tx.from] = sender_nonce + 1]
             IN  [st |-> s3, ok |-> TRUE, err |-> "none"]

\* Result of State::apply_tx: the state afterwards and whether it returned Ok.
apply_tx(st, tx) ==
    LET sender_bal == balance(st, tx.from)
        sender_nonce == nonce(st, tx.from)
        cost == tx.amount + tx.fee
    IN  IF sender_bal < cost
        THEN [st |-> st, ok |-> FALSE, err |-> "Insufficient balance"]
        ELSE IF tx.nonce # sender_nonce
        THEN [st |-> st, ok |-> FALSE, err |-> "Invalid nonce"]
        ELSE LET s1 == [st EXCEPT !.balances[tx.from] = sender_bal - cost]
                 s2 == credit(s1, tx.to, tx.amount)
                 s3 == [s2 EXCEPT !.nonces[tx.from] = sender_nonce + 1]
             IN  [st |-> s3, ok |-> TRUE, err |-> "none"]

\* ----------------------------------------------------------------- economics
RECURSIVE ShiftRight(_, _)
ShiftRight(x, k) == IF k = 0 \/ x = 0 THEN x ELSE ShiftRight(x \div 2, k - 1)

mining_reward_from_EarlyHalving(initial, height) ==
    LET era == (height + 1) \div HALVING_INTERVAL
    IN  IF era >= 64 THEN 0 ELSE ShiftRight(initial, era)

\* The body of get_mining_reward, with INITIAL_REWARD in the unit of `initial`.
mining_reward_from(initial, height) ==
    LET era == height \div HALVING_INTERVAL
    IN  IF era >= 64 THEN 0 ELSE ShiftRight(initial, era)

get_mining_reward(height) == mining_reward_from(INITIAL_REWARD, height)

\* An amount of base units as <<whole AXM, base units below SMALLEST_UNIT>>:
\* u64 amounts of the supply computations, which stay below u64::MAX, so
\* that saturating_add and saturating_mul are the plain sum and product.
AmountOf(axm) == <<axm, 0>>
AmountAdd(x, y) ==
    <<x[1] + y[1] + (x[2] + y[2]) \div SMALLEST_UNIT,
      (x[2] + y[2]) % SMALLEST_UNIT>>
AmountHalf(x) ==
    <<x[1] \div 2, ((x[1] % 2) * SMALLEST_UNIT + x[2]) \div 2>>
AmountLess(x, y) == x[1] < y[1] \/ (x[1] = y[1] /\ x[2] < y[2])
AmountMin(x, y) == IF AmountLess(y, x) THEN y ELSE x

RECURSIVE AmountShr(_, _)
AmountShr(x, k) ==
    IF k = 0 \/ x = AmountOf(0) THEN x ELSE AmountShr(AmountHalf(x), k - 1)

\* x * k for k below 10^8, by halves of four decimal digits
AmountMul(x, k) ==
    LET u1 == x[2] \div 10000
        u0 == x[2] % 10000
        k1 == k \div 10000
        k0 == k % 10000
        mid == u1 * k0 + u0 * k1
        units == (mid % 10000) * 10000 + u0 * k0
    IN  <<x[1] * k + u1 * k1 + mid \div 10000 + units \div SMALLEST_UNIT,
          units % SMALLEST_UNIT>>

\* get_mining_reward in base units
mining_reward_amount(height) ==
    LET era == height \div HALVING_INTERVAL
    IN  IF era >= 64 THEN AmountOf(0)
        ELSE AmountShr(AmountOf(INITIAL_REWARD), era)

\* One iteration of the while loop of calculate_total_supply. The loop enters
\* `era` with current_height = era * HALVING_INTERVAL: every earlier
\* iteration advanced it by a whole HALVING_INTERVAL, and one that advances
\* it by less reaches height and ends the loop.
supply_in_era(height, era) ==
    LET current_height == era * HALVING_INTERVAL
        reward == AmountShr(AmountOf(INITIAL_REWARD), era)
        blocks_in_era == Min(HALVING_INTERVAL, height - current_height)
    IN  IF current_height < height /\ era < 64
        THEN AmountMul(reward, blocks_in_era)
        ELSE AmountOf(0)

\* total after the iterations for the eras first..last, summed by halves
RECURSIVE supply_loop(_, _, _)
supply_loop(height, first, last) ==
    IF first = last THEN supply_in_era(height, first)
    ELSE LET middle == (first + last) \div 2
         IN  AmountAdd(supply_loop(height, first, middle),
                       supply_loop(height, middle + 1, last))

\* economics::calculate_total_supply
calculate_total_supply(height) ==
    IF height = 0 THEN AmountOf(0)
    ELSE AmountMin(supply_loop(height, 0, 63), AmountOf(TOTAL_SUPPLY))

\* Test 3 of validate_economics: the loop over the eras
RECURSIVE schedule_total(_, _)
schedule_total(total, era) ==
    IF era < 64
    THEN LET reward == mining_reward_amount(era * HALVING_INTERVAL)
         IN  IF reward = AmountOf(0) THEN total
             ELSE schedule_total(
                      AmountAdd(total, AmountMul(reward, HALVING_INTERVAL)),
                      era + 1)
    ELSE total

\* TOTAL_SUPPLY * 99 / 100, which is exact and below u64::MAX
NinetyNinePercent == AmountOf((TOTAL_SUPPLY \div 100) * 99)

\* economics::validate_economics
validate_economics ==
    LET before_halving == mining_reward_amount(HALVING_INTERVAL - 1)
        after_halving == mining_reward_amount(HALVING_INTERVAL)
        total == schedule_total(AmountOf(0), 0)
    IN  IF mining_reward_amount(0) # AmountOf(50)
        THEN "Initial reward incorrect"
        ELSE IF after_halving # AmountHalf(before_halving)
        THEN "Halving not working correctly"
        ELSE IF AmountLess(total, NinetyNinePercent)
                \/ AmountLess(AmountOf(TOTAL_SUPPLY), total)
        THEN "Total supply calculation incorrect"
        ELSE "Ok"

block_reward_NextEra(slot, total_issued) ==
    get_mining_reward(slot + HALVING_INTERVAL)

block_reward(slot, total_issued) == get_mining_reward(slot)

\* ---------------------------------------------------------------------- LWMA
BlockHeader(height, timestamp, difficulty) ==
    [height |-> height, timestamp |-> timestamp, difficulty |-> difficulty]

\* a.saturating_sub(b) on u64
saturating_sub(a, b) == IF a >= b THEN a - b ELSE 0

\* floor(a * n / d) and the remainder, by long multiplication on the base-100
\* digits of a: the f64 product of the code, whose operands are far below 2^53.
RECURSIVE MulDiv(_, _, _)
MulDiv(a, n, d) ==
    IF a = 0 THEN [q |-> 0, r |-> 0]
    ELSE LET hi == MulDiv(a \div 100, n, d)
             total == hi.r * 100 + (a % 100) * n
         IN  [q |-> hi.q * 100 + total \div d, r |-> total % d]

\* The loop of calculate_lwma_difficulty over window[1..=i]: the weighted
\* solve times and the sum of the difficulties.  window[i] of the code is
\* window[i + 1] here.
RECURSIVE WeightedTimes(_, _)
WeightedTimes(window, i) ==
    IF i = 0 THEN 0
    ELSE WeightedTimes(window, i - 1)
         + i * Max(saturating_sub(window[i + 1].timestamp,
                                  window[i].timestamp), 1)

RECURSIVE SumDifficulties(_, _)
SumDifficulties(window, i) ==
    IF i = 0 THEN 0
    ELSE SumDifficulties(window, i - 1) + window[i + 1].difficulty

LwmaSums(window, i) ==
    [weighted_times |-> WeightedTimes(window, i),
     sum_difficulties |-> SumDifficulties(window, i)]

calculate_lwma_difficulty_Halved(block_headers, round_down) ==
    IF Len(block_headers) < LWMA_WINDOW + 1 THEN MIN_DIFFICULTY
    ELSE LET window == SubSeq(block_headers,
                              Len(block_headers) - LWMA_WINDOW,
                              Len(block_headers))
             sums == LwmaSums(window, LWMA_WINDOW)
             n == LWMA_WINDOW
             expected_times == (TARGET_BLOCK_TIME * n * (n + 1)) \div 2
         IN  MulDiv(sums.sum_difficulties \div LWMA_WINDOW,
                    sums.weighted_times, expected_times).q \div 2

\* new_difficulty of calculate_lwma_difficulty, the value before the
\* MIN_DIFFICULTY floor, for at least LWMA_WINDOW + 1 headers.  The
\* adjustment weighted_times / expected_times is an f64: where it is not
\* exact and the exact product is a whole number, the product may round to
\* just below it, and `round_down` says whether it does.
new_difficulty(block_headers, round_down) ==
    LET window == SubSeq(block_headers,
                         Len(block_headers) - LWMA_WINDOW,
                         Len(block_headers))
        sums == LwmaSums(window, LWMA_WINDOW)
        weighted_times == sums.weighted_times
        n == LWMA_WINDOW
        expected_times == (TARGET_BLOCK_TIME * n * (n + 1)) \div 2
        avg_difficulty == sums.sum_difficulties \div LWMA_WINDOW
        exact == MulDiv(avg_difficulty, weighted_times, expected_times)
        adjusted ==
            IF weighted_times * 100 < MIN_ADJUSTMENT_PERCENT * expected_times
            THEN MulDiv(avg_difficulty, MIN_ADJUSTMENT_PERCENT, 100).q
            ELSE IF weighted_times > MAX_ADJUSTMENT_FACTOR * expected_times
            THEN avg_difficulty * MAX_ADJUSTMENT_FACTOR
            ELSE IF /\ round_down
                    /\ exact.r = 0
                    /\ exact.q > 0
                    /\ weighted_times # expected_times
            THEN exact.q - 1
            ELSE exact.q
    IN  IF weighted_times = 0 \/ expected_times = 0
        THEN avg_difficulty ELSE adjusted

calculate_lwma_difficulty_Unfloored(block_headers, round_down) ==
    IF Len(block_headers) < LWMA_WINDOW + 1 THEN MIN_DIFFICULTY
    ELSE new_difficulty(block_headers, round_down)

\* calculate_lwma_difficulty
calculate_lwma_difficulty(block_headers, round_down) ==
    IF Len(block_headers) < LWMA_WINDOW + 1 THEN MIN_DIFFICULTY
    ELSE Max(new_difficulty(block_headers, round_down), MIN_DIFFICULTY)

\* tests::create_test_headers
create_test_headers(count, block_time, difficulty) ==
    [i \in 1..count |->
        BlockHeader(i - 1, TEST_EPOCH + (i - 1) * block_time, difficulty)]

\* test_lwma_hashrate_increase: `more` headers pushed after the history, the
\* i-th (from `first`) at i * block_time after its last header.  The test
\* counts from 0, so its first pushed header repeats the last timestamp.
push_headers(headers, more, first, block_time, difficulty) ==
    headers \o
    [i \in 1..more |->
        BlockHeader(Len(headers) + i - 1,
                    Last(headers).timestamp + (i - 1 + first) * block_time,
                    difficulty)]

\* ------------------------------------------------------------------- Mempool
\* A transaction as the mempool sees it: the fields and its serialized size.
SizedTx(from, to, amount, fee, n, size) ==
    [from |-> from, to |-> to, amount |-> amount, fee |-> fee,
     nonce |-> n, size |-> size]

\* Transaction::tx_hash(): a digest of the whole transaction.
Transaction_hash(tx) ==
    <<"tx", tx.from, tx.to, tx.amount, tx.fee, tx.nonce, tx.size>>

\* sha256(from || nonce)
Nullifier(tx) == <<"nullifier", tx.from, tx.nonce>>

EmptyMap == [k \in {} |-> 0]
MapPut(f, k, v) == [x \in DOMAIN f \cup {k} |-> IF x = k THEN v ELSE f[x]]
MapDel(f, k) == [x \in DOMAIN f \ {k} |-> f[x]]

with_capacity(max_size, max_tx_size) ==
    [transactions |-> EmptyMap,
     by_fee |-> EmptyMap,
     by_sender |-> EmptyMap,
     nullifiers |-> {},
     max_size |-> max_size,
     max_tx_size |-> max_tx_size]

Mempool_new == with_capacity(DEFAULT_MAX_SIZE, DEFAULT_MAX_TX_SIZE)

Mempool_len(mp) == Cardinality(DOMAIN mp.transactions)

Mempool_remove_KeepBucket(mp, tx_hash) ==
    IF tx_hash \notin DOMAIN mp.transactions THEN mp
    ELSE LET tx == mp.transactions[tx_hash]
             sender_left == SelectSeq(mp.by_sender[tx.from],
                                      LAMBDA h : h # tx_hash)
         IN  [mp EXCEPT
                !.transactions = MapDel(@, tx_hash),
                !.by_fee = MapPut(@, tx.fee, @[tx.fee] \ {tx_hash}),
                !.by_sender = IF sender_left = <<>> THEN MapDel(@, tx.from)
                              ELSE MapPut(@, tx.from, sender_left),
                !.nullifiers = @ \ {Nullifier(tx)}]

Mempool_remove_KeepNullifier(mp, tx_hash) ==
    IF tx_hash \notin DOMAIN mp.transactions THEN mp
    ELSE LET tx == mp.transactions[tx_hash]
             fee_left == mp.by_fee[tx.fee] \ {tx_hash}
             sender_left == SelectSeq(mp.by_sender[tx.from],
                                      LAMBDA h : h # tx_hash)
         IN  [mp EXCEPT
                !.transactions = MapDel(@, tx_hash),
                !.by_fee = IF fee_left = {} THEN MapDel(@, tx.fee)
                           ELSE MapPut(@, tx.fee, fee_left),
                !.by_sender = IF sender_left = <<>> THEN MapDel(@, tx.from)
                              ELSE MapPut(@, tx.from, sender_left)]

\* Mempool::remove: what it returns, as a list of no or one transaction.
Mempool_removed(mp, tx_hash) ==
    IF tx_hash \in DOMAIN mp.transactions THEN <<mp.transactions[tx_hash]>>
    ELSE <<>>

\* Mempool::remove: the pool afterwards.
Mempool_remove(mp, tx_hash) ==
    IF tx_hash \notin DOMAIN mp.transactions THEN mp
    ELSE LET tx == mp.transactions[tx_hash]
             fee_left == IF tx.fee \in DOMAIN mp.by_fee
                         THEN mp.by_fee[tx.fee] \ {tx_hash} ELSE {}
             sender_left == IF tx.from \in DOMAIN mp.by_sender
                            THEN SelectSeq(mp.by_sender[tx.from],
                                           LAMBDA h : h # tx_hash)
                            ELSE <<>>
         IN  [mp EXCEPT
                !.transactions = MapDel(@, tx_hash),
                !.by_fee = IF fee_left = {} THEN MapDel(@, tx.fee)
                           ELSE MapPut(@, tx.fee, fee_left),
                !.by_sender = IF sender_left = <<>> THEN MapDel(@, tx.from)
                              ELSE MapPut(@, tx.from, sender_left),
                !.nullifiers = @ \ {Nullifier(tx)}]

RECURSIVE remove_batch(_, _)
remove_batch(mp, hashes) ==
    IF hashes = <<>> THEN mp
    ELSE remove_batch(Mempool_remove(mp, Head(hashes)), Tail(hashes))

Mempool_clear(mp) ==
    [mp EXCEPT !.transactions = EmptyMap, !.by_fee = EmptyMap,
               !.by_sender = EmptyMap, !.nullifiers = {}]

\* by_fee.iter().next(): the lowest fee with a bucket.
LowestFee(mp) ==
    CHOOSE f \in DOMAIN mp.by_fee : \A g \in DOMAIN mp.by_fee : f <= g

\* The hashes evict_lowest_fee may pick: the HashSet of the lowest bucket is
\* iterated in no particular order, so its first element is any of them.
Victims(mp) ==
    IF DOMAIN mp.by_fee = {} THEN {ZeroHash} ELSE mp.by_fee[LowestFee(mp)]

evict_lowest_fee(mp, victim) ==
    IF DOMAIN mp.by_fee = {} THEN mp ELSE Mempool_remove(mp, victim)

Mempool_insert(mp, tx) ==
    LET tx_hash == Transaction_hash(tx)
    IN  [mp EXCEPT
           !.by_fee = MapPut(@, tx.fee,
                             IF tx.fee \in DOMAIN @ THEN @[tx.fee] \cup {tx_hash}
                             ELSE {tx_hash}),
           !.by_sender = MapPut(@, tx.from,
                                IF tx.from \in DOMAIN @
                                THEN Append(@[tx.from], tx_hash) ELSE <<tx_hash>>),
           !.nullifiers = @ \cup {Nullifier(tx)},
           !.transactions = MapPut(@, tx_hash, tx)]

Mempool_add_ReplaceByFee(mp, tx, victim) ==
    LET tx_hash == Transaction_hash(tx)
        Rejected(e) == [mp |-> mp, ok |-> FALSE, err |-> e]
    IN  IF tx.size > mp.max_tx_size THEN Rejected("TransactionTooLarge")
        ELSE IF tx_hash \in DOMAIN mp.transactions
        THEN Rejected("DuplicateTransaction")
        ELSE IF /\ Nullifier(tx) \in mp.nullifiers
                /\ \A h \in DOMAIN mp.transactions :
                      Nullifier(mp.transactions[h]) = Nullifier(tx)
                        => mp.transactions[h].fee >= tx.fee
        THEN Rejected("NullifierUsed")
        ELSE IF /\ Mempool_len(mp) >= mp.max_size
                /\ DOMAIN mp.by_fee # {}
                /\ tx.fee <= LowestFee(mp)
        THEN Rejected("FeeTooLow")
        ELSE LET room == IF Mempool_len(mp) >= mp.max_size
                         THEN evict_lowest_fee(mp, victim) ELSE mp
             IN  [mp |-> Mempool_insert(room, tx), ok |-> TRUE, err |-> "none"]

Mempool_add_EvictHighest(mp, tx, victim) ==
    LET tx_hash == Transaction_hash(tx)
        Rejected(e) == [mp |-> mp, ok |-> FALSE, err |-> e]
        highest == CHOOSE h \in DOMAIN mp.transactions :
                     \A g \in DOMAIN mp.transactions :
                        mp.transactions[g].fee <= mp.transactions[h].fee
    IN  IF tx.size > mp.max_tx_size THEN Rejected("TransactionTooLarge")
        ELSE IF tx_hash \in DOMAIN mp.transactions
        THEN Rejected("DuplicateTransaction")
        ELSE IF Nullifier(tx) \in mp.nullifiers THEN Rejected("NullifierUsed")
        ELSE IF /\ Mempool_len(mp) >= mp.max_size
                /\ DOMAIN mp.by_fee # {}
                /\ tx.fee <= LowestFee(mp)
        THEN Rejected("FeeTooLow")
        ELSE LET room == IF Mempool_len(mp) >= mp.max_size
                         THEN evict_lowest_fee(mp, highest) ELSE mp
             IN  [mp |-> Mempool_insert(room, tx), ok |-> TRUE, err |-> "none"]

\* Mempool::add: the pool afterwards and the Result; `victim` is the tx_hash
\* evict_lowest_fee finds first if it is called.
Mempool_add(mp, tx, victim) ==
    LET tx_hash == Transaction_hash(tx)
        Rejected(e) == [mp |-> mp, ok |-> FALSE, err |-> e]
    IN  IF tx.size > mp.max_tx_size THEN Rejected("TransactionTooLarge")
        ELSE IF tx_hash \in DOMAIN mp.transactions
        THEN Rejected("DuplicateTransaction")
        ELSE IF Nullifier(tx) \in mp.nullifiers THEN Rejected("NullifierUsed")
        ELSE IF /\ Mempool_len(mp) >= mp.max_size
                /\ DOMAIN mp.by_fee # {}
                /\ tx.fee <= LowestFee(mp)
        THEN Rejected("FeeTooLow")
        ELSE LET room == IF Mempool_len(mp) >= mp.max_size
                         THEN evict_lowest_fee(mp, victim) ELSE mp
             IN  [mp |-> Mempool_insert(room, tx), ok |-> TRUE, err |-> "none"]

\* The fees of a set, highest first: by_fee.iter().rev().
RECURSIVE FeesDescending(_)
FeesDescending(fees) ==
    IF fees = {} THEN <<>>
    ELSE LET top == CHOOSE f \in fees : \A g \in fees : g <= f
         IN  <<top>> \o FeesDescending(fees \ {top})

\* The hashes in the order get_for_mining visits them: buckets from the
\* highest fee down, each HashSet in the order `rank` lists its members.
RECURSIVE Visit(_, _, _)
Visit(mp, fees, rank) ==
    IF fees = <<>> THEN <<>>
    ELSE SelectSeq(rank, LAMBDA h : h \in mp.by_fee[Head(fees)])
           \o Visit(mp, Tail(fees), rank)

\* The loop body of get_for_mining: push, then test the length.
RECURSIVE Collect(_, _, _, _)
Collect(mp, hashes, result, max_count) ==
    IF hashes = <<>> THEN result
    ELSE IF Head(hashes) \notin DOMAIN mp.transactions
    THEN Collect(mp, Tail(hashes), result, max_count)
    ELSE LET pushed == Append(result, mp.transactions[Head(hashes)])
         IN  IF Len(pushed) >= max_count THEN pushed
             ELSE Collect(mp, Tail(hashes), pushed, max_count)

get_for_mining(mp, max_count, rank) ==
    Collect(mp, Visit(mp, FeesDescending(DOMAIN mp.by_fee), rank),
            <<>>, max_count)

\* -------------------------------------------------------------------- blocks
Block(parent, slot, miner, transactions, vdf_proof, zk_proof, nonce_) ==
    [parent |-> parent, slot |-> slot, miner |-> miner,
     transactions |-> transactions, vdf_proof |-> vdf_proof,
     zk_proof |-> zk_proof, nonce |-> nonce_]

\* Block::hash: Blake3 over the bincode serialization of the whole block.
hash(b) == <<"blake3", b.parent, b.slot, b.miner, b.transactions,
             b.vdf_proof, b.zk_proof, b.nonce>>

\* Block::calculate_hash: SHA-256 over the header fields; the transactions
\* are not fed to the hasher.
calculate_hash(b) == <<"sha256", b.parent, b.slot, b.miner,
                       b.vdf_proof, b.zk_proof, b.nonce>>

\* The 8 leading bytes of a Blake3 digest read as a big-endian integer: a
\* fixed pseudo-random function of the hashed content.
PrefixTable == <<PrefixMax, PrefixMax \div INITIAL_DIFFICULTY, 0, 1, 2, 3,
                 PrefixMax \div INITIAL_DIFFICULTY, PrefixMax>>

HashPrefix(h) ==
    PrefixTable[((3 * h[8] + h[3] + h[4] + Len(h[5])) % Len(PrefixTable)) + 1]

meets_difficulty(b, difficulty) ==
    HashPrefix(hash(b)) < PrefixMax \div Max(difficulty, 1)

\* vdf::evaluate: the VDF seed, SHA-256(parent_hash || slot).
evaluate(parent_hash, slot) == <<"seed", parent_hash, slot>>

\* main_helper::compute_vdf: `iterations` sequential hashes of the seed.
compute_vdf(seed, iterations) == <<"vdf", seed, iterations>>

\* `difficulty as u32`: value preserving below 2^32, where the model stays.
AsU32(x) == x

verify_zk_pass(miner_address, parent, proof) ==
    proof = ZK_PROOF_LEN /\ miner_address # ZeroAddress

genesis == Block(ZeroHash, 0, ZeroAddress, <<>>, ZeroHash, ZK_PROOF_LEN, 0)

\* ----------------------------------------------------------------- Timechain
RECURSIVE ReplayTxs(_, _)
\* The transaction loop of rebuild_state: failed applications are skipped.
ReplayTxs(st, txs) ==
    IF txs = <<>> THEN st
    ELSE ReplayTxs(apply_tx(st, Head(txs)).st, Tail(txs))

RECURSIVE RebuildFrom(_, _, _)
\* The block loop of rebuild_state over blocks[i..], from state st and
\* total_issued issued.
RebuildFrom(blocks, i, acc) ==
    IF i > Len(blocks) THEN acc
    ELSE LET block == blocks[i]
             reward == block_reward(block.slot, acc.total_issued)
             pay == reward > 0 /\ block.miner # ZeroAddress
             st1 == IF pay THEN credit(acc.state, block.miner, reward)
                    ELSE acc.state
             iss1 == IF pay THEN acc.total_issued + reward
                     ELSE acc.total_issued
         IN  RebuildFrom(blocks, i + 1,
                         [state |-> ReplayTxs(st1, block.transactions),
                          total_issued |-> iss1])

rebuild_state(tc) ==
    LET r == RebuildFrom(tc.blocks, 1, [state |-> State_new, total_issued |-> 0])
    IN  [tc EXCEPT !.state = r.state, !.total_issued = r.total_issued]

\* Timechain::new(genesis); the anchor check passes for genesis::genesis().
Timechain_new(g) ==
    rebuild_state([blocks |-> <<g>>,
                   state |-> State_new,
                   difficulty |-> INITIAL_DIFFICULTY,
                   seen_hashes |-> {},
                   total_issued |-> 0])

adjust_difficulty(tc, elapsed) ==
    IF elapsed < TARGET_TIME
    THEN [tc EXCEPT !.difficulty = tc.difficulty + 1]
    ELSE IF elapsed > TARGET_TIME
    THEN [tc EXCEPT !.difficulty = Max(Max(tc.difficulty - 1, 0), 1)]
    ELSE tc

RECURSIVE ApplyTxs(_, _)
\* Step 8 of add_block: apply in order, stop at the first failure.
ApplyTxs(st, txs) ==
    IF txs = <<>> THEN [st |-> st, ok |-> TRUE]
    ELSE LET r == apply_tx(st, Head(txs))
         IN  IF r.ok THEN ApplyTxs(r.st, Tail(txs))
             ELSE [st |-> r.st, ok |-> FALSE]

Rejected(tc, why) == [tc |-> tc, ok |-> FALSE, err |-> why]

\* 1. duplicate and injection protection
DuplicateBlock_Ok(tc) == [tc |-> tc, ok |-> TRUE, err |-> "none"]

DuplicateBlock(tc) == Rejected(tc, "Block already exists")

\* 2. block structure
InvalidParent(tc, block) == block.parent # hash(Last(tc.blocks))

InvalidSlot_Off(tc, block) == FALSE

InvalidSlot(tc, block) == block.slot # Len(tc.blocks)

\* 3. VDF proof
InvalidVdf_Off(tc, block) == FALSE

InvalidVdf(tc, block) ==
    block.vdf_proof # compute_vdf(evaluate(block.parent, block.slot),
                                  AsU32(tc.difficulty))

\* 5. every transaction is validated against the sender's current balance
InvalidTransactions(tc, block) ==
    \E i \in 1..Len(block.transactions) :
        ~Validate(block.transactions[i],
                  balance(tc.state, block.transactions[i].from))

\* Timechain::add_block(block, elapsed): the Timechain afterwards, whether it
\* returned Ok, and the error otherwise.
add_block(tc, block, elapsed) ==
    LET block_hash == calculate_hash(block)
    IN
    IF block_hash \in tc.seen_hashes
    THEN DuplicateBlock(tc)
    ELSE IF InvalidParent(tc, block)
    THEN Rejected(tc, "Invalid parent hash")
    ELSE IF InvalidSlot(tc, block)
    THEN Rejected(tc, "Invalid block slot")
    ELSE IF InvalidVdf(tc, block)
    THEN Rejected(tc, "Invalid VDF proof")
    ELSE IF ~meets_difficulty(block, tc.difficulty)
    THEN Rejected(tc, "Block doesn't meet difficulty requirement")
    ELSE IF InvalidTransactions(tc, block)
    THEN Rejected(tc, "Invalid transaction")
    ELSE IF ~verify_zk_pass(block.miner, block.parent, block.zk_proof)
    THEN Rejected(tc, "Invalid miner ZK pass")
    ELSE
      LET tc1 == [tc EXCEPT !.seen_hashes = @ \cup {block_hash},
                            !.blocks = Append(@, block)]
          reward == block_reward(block.slot, tc1.total_issued)
          pay == reward > 0 /\ block.miner # ZeroAddress
          tc2 == IF pay
                 THEN [tc1 EXCEPT !.state = credit(@, block.miner, reward),
                                  !.total_issued = @ + reward]
                 ELSE tc1
          applied == ApplyTxs(tc2.state, block.transactions)
          tc3 == [tc2 EXCEPT !.state = applied.st]
      IN  IF ~applied.ok
          THEN Rejected(tc3, "Transaction application failed")
          ELSE [tc |-> adjust_difficulty(tc3, elapsed), ok |-> TRUE,
                err |-> "none"]

\* ------------------------------------------------------- fork choice (main.rs)
calculate_chain_work(tc) ==
    LET RECURSIVE Sum(_)
        Sum(i) == IF i = 0 THEN 0 ELSE Max(tc.blocks[i].nonce, 1) + Sum(i - 1)
    IN  Sum(Len(tc.blocks))

RECURSIVE ReplayPeer(_, _, _)
\* The loop of validate_and_sync_chain: add peer_blocks[i..] to the
\* candidate, stopping at the first block add_block refuses.
ReplayPeer(candidate, peer_blocks, i) ==
    IF i > Len(peer_blocks) THEN [tc |-> candidate, valid |-> TRUE]
    ELSE LET r == add_block(candidate, peer_blocks[i], SYNC_ELAPSED)
         IN  IF r.ok THEN ReplayPeer(r.tc, peer_blocks, i + 1)
             ELSE [tc |-> r.tc, valid |-> FALSE]

NoChain(why) == [some |-> FALSE, why |-> why]

BetterChain_OrEqual(candidate, current_chain) ==
    Len(candidate.blocks) >= Len(current_chain.blocks)
    \/ calculate_chain_work(candidate) > calculate_chain_work(current_chain)

\* The acceptance test on a validated candidate: longer, or more work.
BetterChain(candidate, current_chain) ==
    Len(candidate.blocks) > Len(current_chain.blocks)
    \/ calculate_chain_work(candidate) > calculate_chain_work(current_chain)

validate_and_sync_chain_Partial(peer_blocks, current_chain) ==
    IF peer_blocks = <<>> THEN NoChain("empty")
    ELSE IF hash(peer_blocks[1]) # hash(current_chain.blocks[1])
    THEN NoChain("genesis")
    ELSE LET r == ReplayPeer(Timechain_new(genesis), peer_blocks, 2)
         IN  IF BetterChain(r.tc, current_chain)
             THEN [some |-> TRUE, tc |-> r.tc]
             ELSE NoChain("not better")

\* validate_and_sync_chain(peer_blocks, current_chain): Some(candidate), or
\* None and the return site.
validate_and_sync_chain(peer_blocks, current_chain) ==
    IF peer_blocks = <<>> THEN NoChain("empty")
    ELSE IF hash(peer_blocks[1]) # hash(current_chain.blocks[1])
    THEN NoChain("genesis")
    ELSE LET r == ReplayPeer(Timechain_new(genesis), peer_blocks, 2)
         IN  IF ~r.valid THEN NoChain("invalid block")
             ELSE IF BetterChain(r.tc, current_chain)
             THEN [some |-> TRUE, tc |-> r.tc]
             ELSE NoChain("not better")

RECURSIVE LoadReplay(_, _, _)
\* main, chain load: every saved block goes through add_block(b, 3600) and
\* the result is ignored.
LoadReplay(chain, saved_blocks, i) ==
    IF i > Len(saved_blocks) THEN chain
    ELSE LoadReplay(add_block(chain, saved_blocks[i], LOAD_ELAPSED).tc,
                    saved_blocks, i + 1)

\* ---------------------------------------------------------------- node state
VARIABLES
    tc,       \* tc[n]: the Timechain node n holds
    saved,    \* saved[n]: the chain file of node n (storage::save_chain)
    inbox,    \* inbox[n]: chain-topic payloads in flight to node n
    ret,      \* outcome of the handler that ran last
    acct,     \* a State on its own, with the snapshot taken of it
    econ,     \* the reward schedule on its own: a height and its reward
    pool,     \* a Mempool on its own, with the last call made on it
    gate,     \* main's per-peer message counts, clock and transaction queue
    lwma,     \* the LWMA on its own: a header history and its difficulty
    engine,   \* main's mining clock and transaction queue, and its last step
    limiter   \* each peer's messages that passed the rate limit at this instant

vars == <<tc, saved, inbox, ret, acct, econ, pool, gate, lwma, engine,
          limiter>>

\* What the node handlers leave alone: the components exercised on their own.
parts == <<acct, econ, pool, lwma, engine>>
units == <<acct, econ, pool, gate, lwma, engine, limiter>>

NoFile == [some |-> FALSE]
File(blocks) == [some |-> TRUE, blocks |-> blocks]

Outcome(op, ok, err) == [op |-> op, ok |-> ok, err |-> err]

\* gossipsub publish on the chain topic: every other node gets the payload,
\* unless its link is saturated, in which case the payload is lost.
PublishChain(box, n, blocks) ==
    [m \in DOMAIN box |->
        IF m # n /\ Cardinality(box[m] \cup {blocks}) <= MaxInFlight
        THEN box[m] \cup {blocks} ELSE box[m]]

\* The nodes in `running` have just started, without a chain file.
InitOn(running) ==
    /\ tc = [n \in running |-> Timechain_new(genesis)]
    /\ saved = [n \in running |-> NoFile]
    /\ inbox = [n \in running |-> {}]
    /\ ret = Outcome("start", TRUE, "none")

\* main, blocks-topic handler: add the block, persist the chain if accepted.
RecvBlock(n, block, elapsed) ==
    LET r == add_block(tc[n], block, elapsed)
    IN  /\ Len(r.tc.blocks) <= MaxChainLen
        /\ tc' = [tc EXCEPT ![n] = r.tc]
        /\ saved' = IF r.ok THEN [saved EXCEPT ![n] = File(r.tc.blocks)]
                    ELSE saved
        /\ ret' = Outcome("block", r.ok, r.err)
        /\ UNCHANGED inbox

\* main, chain-topic handler: adopt the peer chain if validate_and_sync_chain
\* returns one, persist it and broadcast it.
RecvChain(n, peer_blocks) ==
    LET v == validate_and_sync_chain(peer_blocks, tc[n])
        rest == [inbox EXCEPT ![n] = @ \ {peer_blocks}]
    IN  /\ Len(peer_blocks) <= MaxChainLen
        /\ IF v.some
           THEN /\ tc' = [tc EXCEPT ![n] = v.tc]
                /\ saved' = [saved EXCEPT ![n] = File(v.tc.blocks)]
                /\ inbox' = PublishChain(rest, n, v.tc.blocks)
                /\ ret' = Outcome("chain", TRUE, "none")
           ELSE /\ inbox' = rest
                /\ ret' = Outcome("chain", FALSE, v.why)
                /\ UNCHANGED <<tc, saved>>

\* main, requests-topic handler: answer REQ_CHAIN with the local chain.
RecvReq(n) ==
    /\ inbox' = PublishChain(inbox, n, tc[n].blocks)
    /\ ret' = Outcome("request", TRUE, "none")
    /\ UNCHANGED <<tc, saved>>

\* main, chain_sync_timer: broadcast the local chain.
SyncTimer(n) ==
    /\ inbox' = PublishChain(inbox, n, tc[n].blocks)
    /\ ret' = Outcome("timer", TRUE, "none")
    /\ UNCHANGED <<tc, saved>>

\* Process restart (main, startup): the Timechain is rebuilt from the chain
\* file; what was in flight to the node is lost.
Restart(n) ==
    /\ tc' = [tc EXCEPT ![n] =
                IF saved[n].some
                THEN LoadReplay(Timechain_new(genesis), saved[n].blocks, 1)
                ELSE Timechain_new(genesis)]
    /\ inbox' = [inbox EXCEPT ![n] = {}]
    /\ ret' = Outcome("restart", TRUE, "none")
    /\ UNCHANGED saved

\* The network loses a chain payload.
Drop(n, peer_blocks) ==
    /\ peer_blocks \in inbox[n]
    /\ inbox' = [inbox EXCEPT ![n] = @ \ {peer_blocks}]
    /\ ret' = Outcome("drop", TRUE, "none")
    /\ UNCHANGED <<tc, saved>>

\* -------------------------------------------------------------------- inputs
Range(s) == {s[i] : i \in 1..Len(s)}

\* Transactions of the two account holders.  Address 1 can pay t1 or t2 out
\* of one block reward, but not both; t2 and t3 only apply after t1.
t1 == Tx(1, 2, 25, 5, 0)
t2 == Tx(1, 2, 25, 5, 1)
t3 == Tx(2, 1, 20, 0, 0)
TxLists == {<<t1>>, <<t1, t2>>, <<t2, t1>>, <<t1, t3>>}

\* A block mined at `difficulty`: the VDF is run for the block's own parent
\* and slot.
MineBlock(parent, slot, miner, txs, difficulty, k) ==
    Block(parent, slot, miner, txs,
          compute_vdf(evaluate(parent, slot), AsU32(difficulty)),
          ZK_PROOF_LEN, k)

\* A block mined on the tip of `blocks`.
BuildBlock(blocks, miner, txs, difficulty, k) ==
    MineBlock(hash(Last(blocks)), Len(blocks), miner, txs, difficulty, k)

\* What the blocks topic may deliver to node n, as <<block, elapsed>>: blocks
\* mined on its tip by address 1 (any nonce, any of the transaction lists,
\* elapsed below, at or above TARGET_TIME), blocks with one thing wrong, and
\* blocks the node has seen before.
BlockInputs(n) ==
    LET t == tc[n]
        tip == hash(Last(t.blocks))
        len == Len(t.blocks)
        h == BuildBlock(t.blocks, 1, <<>>, t.difficulty, 0)
        plain == {BuildBlock(t.blocks, 1, <<>>, t.difficulty, k) : k \in Nonces}
        withTxs == {BuildBlock(t.blocks, 1, txs, t.difficulty, 0) : txs \in TxLists}
        wrong == {MineBlock(ZeroHash, len, 1, <<>>, t.difficulty, k) : k \in Nonces}
                 \cup {MineBlock(tip, len + 1, 1, <<>>, t.difficulty, k) : k \in Nonces}
                 \cup {MineBlock(tip, len, ZeroAddress, <<>>, t.difficulty, k) : k \in Nonces}
                 \cup {
                  [h EXCEPT !.vdf_proof = JunkHash],
                  [h EXCEPT !.zk_proof = 64],
                  BuildBlock(t.blocks, 1, <<>>, INITIAL_DIFFICULTY, 0),
                  [Last(t.blocks) EXCEPT !.transactions = <<t1>>]}
        seen == Range(t.blocks)
                \cup (IF saved[n].some THEN Range(saved[n].blocks) ELSE {})
    IN  ((plain \cup withTxs \cup wrong \cup seen) \X {TARGET_TIME})
        \cup ({h} \X {TARGET_TIME - 1, LOAD_ELAPSED})

RECURSIVE HonestChain(_)
\* The chain of len blocks a peer (address 2) mined on the genesis block at
\* the initial difficulty with the lowest nonce.
HonestChain(len) ==
    IF len = 1 THEN <<genesis>>
    ELSE LET c == HonestChain(len - 1)
         IN  Append(c, BuildBlock(c, 2, <<>>, INITIAL_DIFFICULTY, 0))

\* Peer chains of up to len blocks: the last block has the lowest or the
\* highest nonce, so that length and work order them differently.
PeerChains(len) ==
    {<<genesis>>}
    \cup {Append(HonestChain(l - 1),
                 BuildBlock(HonestChain(l - 1), 2, <<>>, INITIAL_DIFFICULTY, k)) :
             l \in 2..len, k \in {0, MaxNonce}}

\* Payloads no honest node sends: the empty chain, a chain on another
\* genesis block, a chain whose last block fails validation.
BadChains(local) ==
    {<<>>, [local EXCEPT ![1].nonce = 1]}
    \cup (IF Len(local) < MaxChainLen
          THEN {Append(local, [BuildBlock(local, 2, <<>>, INITIAL_DIFFICULTY, 0)
                                 EXCEPT !.vdf_proof = JunkHash]),
                Append(local, BuildBlock(local, 2, <<t2>>, INITIAL_DIFFICULTY, 0))}
          ELSE {})

\* What the chain topic may deliver to node n besides the payloads of the
\* modelled nodes: peer chains, the local chain, its prefix, bad payloads.
ChainInputs(n) ==
    LET local == tc[n].blocks
    IN  PeerChains(MaxChainLen)
        \cup {local, SubSeq(local, 1, Len(local) - 1)}
        \cup (IF Len(local) < MaxChainLen
              THEN {Append(local, BuildBlock(local, 2, <<>>, INITIAL_DIFFICULTY, 0))}
              ELSE {})
        \cup BadChains(local)
        \cup UNION {BadChains(c) : c \in PeerChains(MaxChainLen - 1)}

\* --------------------------------------------------------- State on its own
\* StateSnapshot of no snapshot taken yet.
NoSnapshot == [taken |-> FALSE]

\* State::snapshot
snapshot(st) ==
    [taken |-> TRUE, balances |-> st.balances,
     total_issued |-> st.total_issued, nonces |-> st.nonces]

rollback_KeepNonces(st, snap) ==
    [st EXCEPT !.balances = snap.balances,
               !.total_issued = snap.total_issued]

\* State::rollback
rollback(st, snap) ==
    [st EXCEPT !.balances = snap.balances,
               !.total_issued = snap.total_issued,
               !.nonces = snap.nonces]

\* acct.state is the State, acct.snap the last snapshot and acct.base the
\* State as it was when that snapshot was taken.
\* acct.applied counts the successful apply_tx calls of each sender,
\* acct.done holds the <<from, nonce>> of the transactions applied, and
\* acct.twice says whether one of them was applied when already in done.
Account(st, snap, base) ==
    [state |-> st, snap |-> snap, base |-> base,
     applied |-> [a \in Addresses |-> 0], done |-> {}, twice |-> FALSE]

RewardAt(height) ==
    [height |-> height,
     reward |-> mining_reward_from(INITIAL_REWARD_DIV4, height)]

\* pool.mp is the Mempool and pool.prev the Mempool before the last call;
\* pool.tx is the argument of the last add, pool.max and pool.out the
\* argument and the result of the last get_for_mining.
NoTx == SizedTx(0, 0, 0, 0, 0, 0)
PoolAfter(mp, prev, tx, max, out) ==
    [mp |-> mp, prev |-> prev, tx |-> tx, max |-> max, out |-> out]
PoolBuilt(mp) == PoolAfter(mp, mp, NoTx, 0, <<>>)

IdleAcct == acct = Account(State_new, NoSnapshot, State_new)
IdleEcon == econ = RewardAt(0)
IdlePool == pool = PoolBuilt(Mempool_new)

\* gate.peers is peer_message_counts, gate.now the clock, gate.mempool
\* main's queue of transactions and gate.last the message handled last.
Peers == {"p1", "p2"}
NoEntry == [some |-> FALSE]
Entry(count, start) == [some |-> TRUE, count |-> count, start |-> start]
NoMessage == [peer |-> "none", count |-> 0, trusted |-> FALSE]
IdleGate ==
    gate = [peers |-> [p \in Peers |-> NoEntry], now |-> 0,
            mempool |-> <<>>, last |-> NoMessage]

\* lwma.headers is a header history and lwma.out the difficulty computed
\* from it, 0 before the call.
\* lwma.raw is the value before the MIN_DIFFICULTY floor, 0 where the code
\* computes none.
LwmaBefore(headers) == [headers |-> headers, out |-> 0, raw |-> 0]
LwmaAfter(headers, round_down) ==
    [headers |-> headers,
     out |-> calculate_lwma_difficulty(headers, round_down),
     raw |-> IF Len(headers) < LWMA_WINDOW + 1 THEN 0
             ELSE new_difficulty(headers, round_down)]
IdleLwma == lwma = LwmaBefore(<<>>)

\* engine.elapsed is last_vdf.elapsed(), engine.since the seconds since the
\* node last accepted a block (since startup before that), engine.mempool
\* main's transaction queue and engine.last what the last step did.
NoStep == [op |-> "none"]
IdleMiner == engine = [elapsed |-> 0, since |-> 0, mempool |-> <<>>,
                      last |-> NoStep]

\* limiter.passed[p]: the messages of peer p that passed the rate limit
\* since the clock was last read.
IdleLimiter == limiter = [passed |-> [p \in Peers |-> 0]]

IdleUnits ==
    /\ IdleAcct /\ IdleEcon /\ IdlePool /\ IdleGate /\ IdleLwma /\ IdleMiner
    /\ IdleLimiter

\* Transactions between the two user addresses, self-transfers and zero
\* amounts and fees included, with a current, a stale or a future nonce.
TxInputs ==
    {Tx(from, to, amount, fee, n) :
        from \in {1, 2}, to \in {1, 2}, amount \in {0, 25}, fee \in {0, 5},
        n \in 0..(MaxAcctNonce + 1)}

\* State::credit of a block reward
StCredit(addr) ==
    /\ balance(acct.state, addr) < MaxCredits * INITIAL_REWARD
    /\ acct' = [acct EXCEPT !.state = credit(@, addr, INITIAL_REWARD)]
    /\ ret' = Outcome("credit", TRUE, "none")
    /\ UNCHANGED <<tc, saved, inbox, econ, pool, gate, lwma, engine, limiter>>

\* State::apply_tx
StApply(tx) ==
    LET r == apply_tx(acct.state, tx)
    IN  /\ nonce(acct.state, tx.from) <= MaxAcctNonce
        /\ acct' = [acct EXCEPT !.state = r.st]
        /\ ret' = Outcome("apply_tx", r.ok, r.err)
        /\ UNCHANGED <<tc, saved, inbox, econ, pool, gate, lwma, engine, limiter>>

\* State::apply_tx on a State that is never rolled back
LedgerApply(tx) ==
    LET r == apply_tx(acct.state, tx)
        key == <<tx.from, tx.nonce>>
    IN  /\ nonce(acct.state, tx.from) <= MaxAcctNonce
        /\ acct.applied[tx.from] <= MaxAcctNonce
        /\ acct' = [acct EXCEPT
                       !.state = r.st,
                       !.applied[tx.from] = IF r.ok THEN @ + 1 ELSE @,
                       !.done = IF r.ok THEN @ \cup {key} ELSE @,
                       !.twice = @ \/ (r.ok /\ key \in acct.done)]
        /\ ret' = Outcome("apply_tx", r.ok, r.err)
        /\ UNCHANGED <<tc, saved, inbox, econ, pool, gate, lwma, engine, limiter>>

\* State::snapshot
StSnapshot ==
    /\ acct' = [acct EXCEPT !.snap = snapshot(acct.state), !.base = acct.state]
    /\ ret' = Outcome("snapshot", TRUE, "none")
    /\ UNCHANGED <<tc, saved, inbox, econ, pool, gate, lwma, engine, limiter>>

\* State::rollback
StRollback ==
    /\ acct.snap.taken
    /\ acct' = [acct EXCEPT !.state = rollback(@, acct.snap)]
    /\ ret' = Outcome("rollback", TRUE,
                       IF acct.state = acct.base THEN "none" ELSE "undone")
    /\ UNCHANGED <<tc, saved, inbox, econ, pool, gate, lwma, engine, limiter>>

NextState ==
    \/ StCredit(1)
    \/ \E tx \in TxInputs : StApply(tx)
    \/ StSnapshot
    \/ StRollback

NextLedger ==
    \/ StCredit(1)
    \/ \E tx \in TxInputs : LedgerApply(tx)

InitState == InitOn({"n1"}) /\ IdleUnits

SpecLedger == InitState /\ [][NextLedger]_vars

\* ------------------------------------------------- reward schedule on its own
\* Heights at, just below and just above the start of each era.
Heights ==
    {h \in {era * HALVING_INTERVAL + d : era \in 0..MaxEra, d \in {-1, 0, 1}} :
        h >= 0}

\* economics::get_mining_reward(height)
GetReward(height) ==
    /\ econ' = RewardAt(height)
    /\ ret' = Outcome("get_mining_reward", TRUE, "none")
    /\ UNCHANGED <<tc, saved, inbox, acct, pool, gate, lwma, engine, limiter>>

NextReward == \E height \in Heights : GetReward(height)

\* econ after calculate_total_supply(height) or validate_economics(): the
\* height, the supply returned for it, and the verdict and the total of the
\* last validation.
SupplyAt(height, supply, verdict, total) ==
    [height |-> height, reward |-> RewardAt(height).reward,
     supply |-> supply, verdict |-> verdict, total |-> total]

\* economics::calculate_total_supply(height)
TotalSupply(height) ==
    /\ econ' = SupplyAt(height, calculate_total_supply(height), "none",
                        AmountOf(0))
    /\ ret' = Outcome("calculate_total_supply", TRUE, "none")
    /\ UNCHANGED <<tc, saved, inbox, acct, pool, gate, lwma, engine, limiter>>

\* economics::validate_economics()
ValidateEconomics ==
    /\ econ' = SupplyAt(econ.height, AmountOf(0), validate_economics,
                        schedule_total(AmountOf(0), 0))
    /\ ret' = Outcome("validate_economics", validate_economics = "Ok",
                      validate_economics)
    /\ UNCHANGED <<tc, saved, inbox, acct, pool, gate, lwma, engine, limiter>>

\* The heights at which the eras start.
SupplyHeights == {era * HALVING_INTERVAL : era \in 0..MaxEra}

NextSupply ==
    \/ \E height \in SupplyHeights : TotalSupply(height)
    \/ ValidateEconomics

SpecSupply == InitState /\ [][NextSupply]_vars

SpecReward == InitState /\ [][NextReward]_vars

SpecState == InitState /\ [][NextState]_vars

\* ------------------------------------------------------- Mempool on its own
\* Transactions of two senders: two nonces of the first and one of the
\* second, three fees, and a size at and one over max_tx_size.
PoolTxInputs ==
    {SizedTx(fn[1], 3 - fn[1], 100, fee, fn[2], size) :
        fn \in {<<1, 0>>, <<1, 1>>, <<2, 0>>},
        fee \in {5, 10, 15},
        size \in {DEFAULT_MAX_TX_SIZE, DEFAULT_MAX_TX_SIZE + 1}}

PoolHashes ==
    {Transaction_hash(tx) : tx \in {t \in PoolTxInputs : t.size <= DEFAULT_MAX_TX_SIZE}}

\* The orders in which the members of a set may be listed.
Orders(S) ==
    {r \in [1..Cardinality(S) -> S] : \A i, j \in DOMAIN r : r[i] = r[j] => i = j}

PoolAdd(tx) ==
    \E victim \in Victims(pool.mp) :
        LET r == Mempool_add(pool.mp, tx, victim)
        IN  /\ pool' = PoolAfter(r.mp, pool.mp, tx, 0, <<>>)
            /\ ret' = Outcome("add", r.ok, r.err)
            /\ UNCHANGED <<tc, saved, inbox, acct, econ, gate, lwma, engine, limiter>>

PoolRemove(tx_hash) ==
    /\ pool' = PoolAfter(Mempool_remove(pool.mp, tx_hash), pool.mp, NoTx, 0,
                         Mempool_removed(pool.mp, tx_hash))
    /\ ret' = Outcome("remove", tx_hash \in DOMAIN pool.mp.transactions, "none")
    /\ UNCHANGED <<tc, saved, inbox, acct, econ, gate, lwma, engine, limiter>>

PoolRemoveBatch(hashes) ==
    /\ pool' = PoolAfter(remove_batch(pool.mp, hashes), pool.mp, NoTx, 0, <<>>)
    /\ ret' = Outcome("remove_batch", TRUE, "none")
    /\ UNCHANGED <<tc, saved, inbox, acct, econ, gate, lwma, engine, limiter>>

PoolClear ==
    /\ pool' = PoolAfter(Mempool_clear(pool.mp), pool.mp, NoTx, 0, <<>>)
    /\ ret' = Outcome("clear", TRUE, "none")
    /\ UNCHANGED <<tc, saved, inbox, acct, econ, gate, lwma, engine, limiter>>

PoolGetForMining(max_count) ==
    \E rank \in Orders(DOMAIN pool.mp.transactions) :
        /\ pool' = PoolAfter(pool.mp, pool.mp, NoTx, max_count,
                             get_for_mining(pool.mp, max_count, rank))
        /\ ret' = Outcome("get_for_mining", TRUE, "none")
        /\ UNCHANGED <<tc, saved, inbox, acct, econ, gate, lwma, engine, limiter>>

NextPool ==
    \/ \E tx \in PoolTxInputs : PoolAdd(tx)
    \/ \E tx_hash \in PoolHashes : PoolRemove(tx_hash)
    \/ \E h1, h2 \in PoolHashes : PoolRemoveBatch(<<h1, h2>>)
    \/ PoolClear
    \/ \E max_count \in 0..(MaxPoolSize + 1) : PoolGetForMining(max_count)

InitPool ==
    /\ InitOn({"n1"})
    /\ IdleAcct
    /\ IdleEcon
    /\ IdleGate
    /\ IdleLwma
    /\ IdleMiner
    /\ IdleLimiter
    /\ pool \in {PoolBuilt(with_capacity(max_size, DEFAULT_MAX_TX_SIZE)) :
                   max_size \in 0..MaxPoolSize}

SpecPool == InitPool /\ [][NextPool]_vars

\* ---------------------------------------------------------- LWMA on its own
\* Histories as the tests build them: headers at one interval, then up to
\* MaxTail headers at another, all with one difficulty.
LwmaHistories ==
    {push_headers(create_test_headers(count, block_time, difficulty),
                  more, first, tail_time, difficulty) :
        count \in {1, LWMA_WINDOW, LWMA_WINDOW + 1, MaxHeaders - MaxTail,
                   MaxHeaders},
        block_time \in {0, TARGET_BLOCK_TIME \div 2, TARGET_BLOCK_TIME,
                        2 * TARGET_BLOCK_TIME, 4 * TARGET_BLOCK_TIME},
        more \in {0, 1, MaxTail},
        first \in {0, 1},
        tail_time \in {0 - TARGET_BLOCK_TIME, TARGET_BLOCK_TIME \div 2,
                       TARGET_BLOCK_TIME},
        difficulty \in {MIN_DIFFICULTY \div 2, MIN_DIFFICULTY, 100 * MIN_DIFFICULTY}}

CalculateLwma(round_down) ==
    /\ lwma.out = 0
    /\ lwma' = LwmaAfter(lwma.headers, round_down)
    /\ ret' = Outcome("calculate_lwma_difficulty", TRUE, "none")
    /\ UNCHANGED <<tc, saved, inbox, acct, econ, pool, gate, engine, limiter>>

NextLwma == \E round_down \in BOOLEAN : CalculateLwma(round_down)

InitLwma ==
    /\ InitOn({"n1"})
    /\ IdleAcct
    /\ IdleEcon
    /\ IdlePool
    /\ IdleGate
    /\ IdleMiner
    /\ IdleLimiter
    /\ lwma \in {LwmaBefore(headers) : headers \in LwmaHistories}

SpecLwma == InitLwma /\ [][NextLwma]_vars

\* --------------------------------------------- the two difficulty predicates
\* A digest as <<h[0..8], h[8..32]>>, each part read big-endian as a number in
\* 0..DigestWordMax, which stands for u64::MAX; the whole digest read
\* big-endian is from_bytes_be.
Digests == (0..DigestWordMax) \X (0..DigestWordMax)
from_bytes_be(h) == h[1] * (DigestWordMax + 1) + h[2]

\* consensus::lwma::max_target, 2^256 - 1 for the digests above
max_target == (DigestWordMax + 1) * (DigestWordMax + 1) - 1

\* consensus::lwma::difficulty_to_target
difficulty_to_target(difficulty) ==
    IF difficulty = 0 THEN max_target ELSE max_target \div difficulty

\* consensus::lwma::meets_difficulty
lwma_meets_difficulty(block_hash, difficulty) ==
    from_bytes_be(block_hash) <= difficulty_to_target(difficulty)

\* Block::meets_difficulty on the digest of the block
Block_meets_difficulty(h, difficulty) ==
    LET val == h[1]
    IN  val < DigestWordMax \div Max(difficulty, 1)

Compared(h, difficulty, done) ==
    [digest |-> h, difficulty |-> difficulty, done |-> done,
     block |-> done /\ Block_meets_difficulty(h, difficulty),
     consensus |-> done /\ lwma_meets_difficulty(h, difficulty)]

\* both predicates applied to one digest and one difficulty
MeetsDifficulty ==
    /\ ~lwma.done
    /\ lwma' = Compared(lwma.digest, lwma.difficulty, TRUE)
    /\ ret' = Outcome("meets_difficulty", lwma'.block, "none")
    /\ UNCHANGED <<tc, saved, inbox, acct, econ, pool, gate, engine, limiter>>

NextTarget == MeetsDifficulty

InitTarget ==
    /\ InitOn({"n1"})
    /\ IdleAcct
    /\ IdleEcon
    /\ IdlePool
    /\ IdleGate
    /\ IdleMiner
    /\ IdleLimiter
    /\ lwma \in {Compared(h, difficulty, FALSE) :
                    h \in Digests, difficulty \in 0..MaxDifficulty}

SpecTarget == InitTarget /\ [][NextTarget]_vars

\* ------------------------------------------------------------------ one node
\* A node without connected peers and what the topics may deliver to it.
Local == "n1"

NextBlock ==
    /\ \E in \in BlockInputs(Local) : RecvBlock(Local, in[1], in[2])
    /\ UNCHANGED units
NextChain ==
    /\ \E c \in ChainInputs(Local) \cup inbox[Local] : RecvChain(Local, c)
    /\ UNCHANGED units
NextRestart == Restart(Local) /\ UNCHANGED units

Next == NextBlock \/ NextChain \/ NextRestart

Init == InitOn({Local}) /\ IdleUnits

Spec == Init /\ [][Next]_vars

\* ----------------------------------------------------------------- two nodes
\* Two nodes that gossip their chains.  Blocks reach them at the target
\* interval, mined by address 1 with the lowest or the highest nonce.
NetBlockInputs(n) ==
    {BuildBlock(tc[n].blocks, 1, <<>>, tc[n].difficulty, k) : k \in {0, MaxNonce}}
    \X {TARGET_TIME}

NetBlock ==
    /\ \E n \in Nodes : \E in \in NetBlockInputs(n) : RecvBlock(n, in[1], in[2])
    /\ UNCHANGED units
NetChain(n) == (\E c \in inbox[n] : RecvChain(n, c)) /\ UNCHANGED units
NetBadChain ==
    /\ \E n \in Nodes : \E c \in BadChains(tc[n].blocks) : RecvChain(n, c)
    /\ UNCHANGED units
NetReq == (\E n \in Nodes : RecvReq(n)) /\ UNCHANGED units
NetTimer(n) == SyncTimer(n) /\ UNCHANGED units
NetDrop == (\E n \in Nodes : \E c \in inbox[n] : Drop(n, c)) /\ UNCHANGED units

NextNet ==
    \/ NetBlock
    \/ \E n \in Nodes : NetChain(n)
    \/ NetBadChain
    \/ NetReq
    \/ \E n \in Nodes : NetTimer(n)
    \/ NetDrop

InitNet == InitOn(Nodes) /\ IdleUnits

SpecNet == InitNet /\ [][NextNet]_vars

\* The event loop keeps serving its periodic sync timer.
FairNet ==
    /\ SpecNet
    /\ \A n \in Nodes : WF_vars(NetTimer(n))

\* ------------------------------------------------ chains built block by block
\* Two nodes that each extend their own chain with valid blocks, mined at
\* their current difficulty and accepted a little before, at or a little
\* after the target interval, and that hand their chains to each other.
SyncBlockInputs(n) ==
    {BuildBlock(tc[n].blocks, 1, <<>>, tc[n].difficulty, k) : k \in {0, MaxNonce}}
    \X {TARGET_TIME - 1, TARGET_TIME, TARGET_TIME + 1}

SyncBlock ==
    /\ \E n \in Nodes : \E in \in SyncBlockInputs(n) : RecvBlock(n, in[1], in[2])
    /\ UNCHANGED units

SyncChain ==
    /\ \E n \in Nodes : \E m \in Nodes \ {n} : RecvChain(n, tc[m].blocks)
    /\ UNCHANGED units

NextSync == SyncBlock \/ SyncChain

SpecSync == InitNet /\ [][NextSync]_vars

\* -------------------------------------------------------------- gossip gate
\* What peers send to node n: a chain request, a block that extends its tip,
\* or a transaction.
GossipInputs(n) ==
    {[kind |-> "request"]}
    \cup {[kind |-> "block", block |-> in[1], elapsed |-> in[2]] :
             in \in {i \in NetBlockInputs(n) : i[1].nonce = 0}}
    \cup {[kind |-> "tx", tx |-> t1]}

\* main, gossipsub Message event: count the peer's message, discard it past
\* the rate limit, ask the guardian, and dispatch on the payload and topic.
\* `trusted` is what predict_trust returns with the weights learned so far.
Gossip(n, peer, msg, trusted) ==
    LET found == IF gate.peers[peer].some THEN gate.peers[peer]
                 ELSE Entry(0, gate.now)
        entry == IF gate.now - found.start > RATE_WINDOW
                 THEN Entry(0, gate.now) ELSE found
        count == entry.count + 1
        passed == count <= RATE_LIMIT /\ trusted /\ count <= TRUSTED_BURST
        pushed == /\ passed
                  /\ msg.kind = "tx"
                  /\ Validate(msg.tx, balance(tc[n].state, msg.tx.from))
                  /\ \A i \in DOMAIN gate.mempool : gate.mempool[i] # msg.tx
    IN  /\ count <= RATE_LIMIT + MaxExcess
        /\ peer = "p2" => count <= MaxQuiet
        /\ gate' = [gate EXCEPT
                       !.peers[peer] = Entry(count, entry.start),
                       !.mempool = IF pushed THEN Append(@, msg.tx) ELSE @,
                       !.last = [peer |-> peer, count |-> count,
                                 trusted |-> trusted]]
        /\ IF ~passed
           THEN /\ ret' = Outcome("discard", FALSE,
                                   IF count > RATE_LIMIT THEN "rate limit"
                                   ELSE "trust gate")
                /\ UNCHANGED <<tc, saved, inbox>>
           ELSE IF msg.kind = "request" THEN RecvReq(n)
           ELSE IF msg.kind = "block" THEN RecvBlock(n, msg.block, msg.elapsed)
           ELSE /\ ret' = Outcome("tx", pushed, "none")
                /\ UNCHANGED <<tc, saved, inbox>>
        /\ UNCHANGED parts

\* main, throttle_reset timer: every count is forgotten.
ThrottleReset ==
    /\ gate' = [gate EXCEPT !.peers = [p \in Peers |-> NoEntry],
                             !.last = NoMessage]
    /\ ret' = Outcome("throttle_reset", TRUE, "none")
    /\ UNCHANGED <<tc, saved, inbox>>
    /\ UNCHANGED parts

\* Time passes.
Tick ==
    /\ gate.now + TickSecs <= MaxClock
    /\ gate' = [gate EXCEPT !.now = @ + TickSecs, !.last = NoMessage]
    /\ ret' = Outcome("tick", TRUE, "none")
    /\ UNCHANGED <<tc, saved, inbox>>
    /\ UNCHANGED parts

GateGossip ==
    /\ \E peer \in Peers : \E msg \in GossipInputs(Local) :
          \E trusted \in BOOLEAN : Gossip(Local, peer, msg, trusted)
    /\ UNCHANGED limiter
GateReset == ThrottleReset /\ UNCHANGED limiter
GateTick == Tick /\ UNCHANGED limiter

NextGate == GateGossip \/ GateReset \/ GateTick

SpecGate == InitNet /\ [][NextGate]_vars

\* ------------------------------------------------------ rate limit over time
\* One peer that sends chain requests, with the messages that passed the
\* rate limit counted from one reading of the clock to the next.
LimiterGossip ==
    \E trusted \in BOOLEAN :
        /\ limiter.passed["p1"] <= RATE_LIMIT
        /\ Gossip(Local, "p1", [kind |-> "request"], trusted)
        /\ limiter' = [limiter EXCEPT !.passed["p1"] =
                          IF gate'.last.count <= RATE_LIMIT THEN @ + 1 ELSE @]
LimiterReset == ThrottleReset /\ UNCHANGED limiter
LimiterTick == Tick /\ limiter' = [passed |-> [p \in Peers |-> 0]]

NextLimiter == LimiterGossip \/ LimiterReset \/ LimiterTick

SpecLimiter == InitNet /\ [][NextLimiter]_vars

\* -------------------------------------------------------------- mining engine
RECURSIVE Select(_, _, _)
\* main, mining engine: transactions are taken off the front of the queue;
\* the valid ones are selected, the others dropped.
Select(t, mempool, selected_txs) ==
    IF mempool = <<>> \/ Len(selected_txs) >= MAX_TXS_PER_BLOCK
    THEN [mempool |-> mempool, selected |-> selected_txs]
    ELSE IF Validate(Head(mempool), balance(t.state, Head(mempool).from))
    THEN Select(t, Tail(mempool), Append(selected_txs, Head(mempool)))
    ELSE Select(t, Tail(mempool), selected_txs)

max_attempts(t) ==
    IF Len(t.blocks) <= EARLY_BLOCKS THEN EARLY_ATTEMPTS ELSE LATE_ATTEMPTS

RECURSIVE Search(_, _, _, _, _)
\* main, mining engine: the nonce search.  Every nonce whose candidate meets
\* the difficulty is offered to add_block; the search ends with the first
\* one add_block accepts or when the attempts are used up.
Search(t, candidate, elapsed, nonce_, attempts) ==
    IF nonce_ >= attempts THEN [tc |-> t, found |-> FALSE]
    ELSE LET c == [candidate EXCEPT !.nonce = nonce_]
         IN  IF ~meets_difficulty(c, t.difficulty)
             THEN Search(t, candidate, elapsed, nonce_ + 1, attempts)
             ELSE LET r == add_block(t, c, elapsed)
                  IN  IF r.ok THEN [tc |-> r.tc, found |-> TRUE]
                      ELSE Search(r.tc, candidate, elapsed, nonce_ + 1, attempts)

\* main, mining engine, after a search that found nothing.
ReduceDifficulty(t) ==
    IF t.difficulty > FAILURE_FLOOR
    THEN [t EXCEPT !.difficulty = Max(@ - FAILURE_STEP, 0)]
    ELSE t

\* What a step leaves in engine.last: the handler, whether it accepted a
\* block (pushed a transaction), the seconds since the last accepted block
\* when it ran, and the transactions of the block.
Step(op, ok, txs) ==
    [op |-> op, ok |-> ok, since |-> engine.since, txs |-> txs]

\* A failed mining attempt also leaves the Timechain it started from.
FailedAttempt(before, txs) ==
    [op |-> "mine", ok |-> FALSE, since |-> engine.since, txs |-> txs,
     before |-> before]

\* Time passes.
Elapse ==
    /\ engine.elapsed < MaxElapsed
    /\ engine' = [engine EXCEPT !.elapsed = @ + ElapseSecs,
                               !.since = @ + ElapseSecs,
                               !.last = NoStep]
    /\ ret' = Outcome("elapse", TRUE, "none")
    /\ UNCHANGED <<tc, saved, inbox, acct, econ, pool, gate, lwma, limiter>>

\* main, vdf_loop tick: nothing before MINING_INTERVAL seconds on last_vdf;
\* then the VDF, the selection, the nonce search, and either the mined block
\* saved and last_vdf reset or the difficulty reduced.
MinerTick(n) ==
    LET elapsed == engine.elapsed
        t == tc[n]
        parent_hash == hash(Last(t.blocks))
        current_slot == Len(t.blocks)
        vdf_proof == compute_vdf(evaluate(parent_hash, current_slot),
                                 AsU32(t.difficulty))
        sel == Select(t, engine.mempool, <<>>)
        candidate == Block(parent_hash, current_slot, WalletAddress,
                           sel.selected, vdf_proof, ZK_PROOF_LEN, 0)
        s == Search(t, candidate, elapsed, 0, max_attempts(t))
    IN  IF elapsed < MINING_INTERVAL
        THEN /\ engine' = [engine EXCEPT !.last = Step("idle", FALSE, <<>>)]
             /\ ret' = Outcome("tick", FALSE, "none")
             /\ UNCHANGED <<tc, saved, inbox, acct, econ, pool, gate, lwma, limiter>>
        ELSE /\ Len(t.blocks) < MaxChainLen
             /\ tc' = [tc EXCEPT ![n] = IF s.found THEN s.tc
                                        ELSE ReduceDifficulty(s.tc)]
             /\ saved' = IF s.found THEN [saved EXCEPT ![n] = File(s.tc.blocks)]
                         ELSE saved
             /\ engine' = [engine EXCEPT
                             !.elapsed = IF s.found THEN 0 ELSE @,
                             !.since = IF s.found THEN 0 ELSE @,
                             !.mempool = sel.mempool,
                             !.last = IF s.found
                                     THEN Step("mine", TRUE, sel.selected)
                                     ELSE FailedAttempt(t, sel.selected)]
             /\ ret' = Outcome("mine", s.found, "none")
             /\ UNCHANGED <<inbox, acct, econ, pool, gate, lwma, limiter>>

\* main, blocks-topic handler, with last_vdf.elapsed() as elapsed.
MinerBlock(n, block) ==
    /\ RecvBlock(n, block, engine.elapsed)
    /\ engine' = [engine EXCEPT
                    !.since = IF ret'.ok THEN 0 ELSE @,
                    !.last = Step("block", ret'.ok, block.transactions)]
    /\ UNCHANGED <<acct, econ, pool, gate, lwma, limiter>>

\* main, fallback handler: a block on another topic; last_vdf is reset when
\* the block is accepted.
MinerOtherBlock(n, block) ==
    /\ RecvBlock(n, block, engine.elapsed)
    /\ engine' = [engine EXCEPT
                    !.elapsed = IF ret'.ok THEN 0 ELSE @,
                    !.since = IF ret'.ok THEN 0 ELSE @,
                    !.last = Step("other", ret'.ok, block.transactions)]
    /\ UNCHANGED <<acct, econ, pool, gate, lwma, limiter>>

\* main, request-response answer: every block is offered to add_block with
\* RESPONSE_ELAPSED and the chain is saved.
MinerResponse(n, block) ==
    LET r == add_block(tc[n], block, RESPONSE_ELAPSED)
    IN  /\ Len(r.tc.blocks) <= MaxChainLen
        /\ tc' = [tc EXCEPT ![n] = r.tc]
        /\ saved' = [saved EXCEPT ![n] = File(r.tc.blocks)]
        /\ engine' = [engine EXCEPT
                        !.since = IF r.ok THEN 0 ELSE @,
                        !.last = Step("response", r.ok, block.transactions)]
        /\ ret' = Outcome("response", r.ok, r.err)
        /\ UNCHANGED <<inbox, acct, econ, pool, gate, lwma, limiter>>

\* main, chain-topic handler: last_vdf is reset when the chain is adopted.
MinerChain(n, peer_blocks) ==
    /\ RecvChain(n, peer_blocks)
    /\ engine' = [engine EXCEPT
                    !.elapsed = IF ret'.ok THEN 0 ELSE @,
                    !.since = IF ret'.ok THEN 0 ELSE @,
                    !.last = Step("chain", ret'.ok, <<>>)]
    /\ UNCHANGED <<acct, econ, pool, gate, lwma, limiter>>

\* main, transactions-topic handler: a valid transaction the queue does not
\* hold yet is pushed at the back.
MinerTx(n, tx) ==
    LET pushed == /\ Validate(tx, balance(tc[n].state, tx.from))
                  /\ \A i \in DOMAIN engine.mempool : engine.mempool[i] # tx
    IN  /\ Len(engine.mempool) < MaxMempool
        /\ engine' = [engine EXCEPT
                        !.mempool = IF pushed THEN Append(@, tx) ELSE @,
                        !.last = Step("tx", pushed, <<tx>>)]
        /\ ret' = Outcome("tx", pushed, "none")
        /\ UNCHANGED <<tc, saved, inbox, acct, econ, pool, gate, lwma, limiter>>

chain_response_FromNext(blocks, start_height) ==
    IF start_height + 1 < Len(blocks)
    THEN SubSeq(blocks, start_height + 2, Len(blocks))
    ELSE <<>>

\* main, request-response Request handler: the blocks from index
\* start_height on, nothing when the chain is not that long.
chain_response(blocks, start_height) ==
    IF start_height < Len(blocks)
    THEN SubSeq(blocks, start_height + 1, Len(blocks))
    ELSE <<>>

\* The answer is sent back to the requesting peer; engine.last keeps it.
MinerRequest(n, start_height) ==
    /\ engine' = [engine EXCEPT !.last =
                     [op |-> "request", ok |-> TRUE, since |-> engine.since,
                      txs |-> <<>>, start |-> start_height,
                      blocks |-> chain_response(tc[n].blocks, start_height)]]
    /\ ret' = Outcome("chain request", TRUE, "none")
    /\ UNCHANGED <<tc, saved, inbox, acct, econ, pool, gate, lwma, limiter>>

\* Transactions peers send: two that cost nothing, with the current and
\* with a later account nonce, and one that needs a balance.
MinerTxInputs == {Tx(1, 2, 0, 0, 0), Tx(1, 2, 0, 0, 1), t3}

\* Blocks peers send to node n: mined on its tip at its difficulty by
\* address 1, empty or carrying the transaction at the front of its queue,
\* and one with a junk VDF proof.  The other handlers get the empty block,
\* the chain topic a chain of MaxChainLen - 1 blocks.
PeerBlock(n) == BuildBlock(tc[n].blocks, 1, <<>>, tc[n].difficulty, 0)

MinerBlockInputs(n) ==
    {PeerBlock(n), [PeerBlock(n) EXCEPT !.vdf_proof = JunkHash]}
    \cup (IF engine.mempool = <<>> THEN {}
          ELSE {BuildBlock(tc[n].blocks, 1, <<Head(engine.mempool)>>,
                           tc[n].difficulty, 0)})

NextTick == MinerTick(Local)
NextPeerBlock == \E b \in MinerBlockInputs(Local) : MinerBlock(Local, b)
NextOtherBlock == MinerOtherBlock(Local, PeerBlock(Local))
NextResponse == MinerResponse(Local, PeerBlock(Local))
NextPeerChain == MinerChain(Local, HonestChain(MaxChainLen - 1))
NextTx == \E tx \in MinerTxInputs : MinerTx(Local, tx)
NextRequest ==
    \E start_height \in 0..(MaxChainLen + 1) : MinerRequest(Local, start_height)

NextMiner ==
    \/ Elapse
    \/ NextTick
    \/ NextPeerBlock
    \/ NextOtherBlock
    \/ NextResponse
    \/ NextPeerChain
    \/ NextTx

SpecMiner == Init /\ [][NextMiner]_vars

\* The node as a responder: blocks and transactions reach it and peers ask
\* it for its chain from some height on.
NextResponder == NextPeerBlock \/ NextTx \/ NextRequest

SpecResponder == Init /\ [][NextResponder]_vars

\* =================================================================== claims
Chain(n) == tc[n].blocks

\* What add_block(b, elapsed) may change besides the difficulty.
Ledger(t) == <<t.blocks, t.seen_hashes, t.state.balances, t.state.nonces,
               t.total_issued, t.difficulty>>

\* C1: whenever add_block returns an error, the block list, seen_hashes,
\* balances, nonces, total_issued and difficulty are as before the call.
C1_RejectedBlockChangesNothing ==
    [][\A n \in DOMAIN tc :
          (ret'.op = "block" /\ ~ret'.ok) => Ledger(tc'[n]) = Ledger(tc[n])]_vars

\* C2: in every reachable state blocks[0] is the genesis block and every
\* later block has slot == its index and parent == digest of its predecessor.
C2_ChainIsLinked ==
    \A n \in DOMAIN tc :
        /\ Chain(n)[1] = genesis
        /\ \A i \in 2..Len(Chain(n)) :
              /\ Chain(n)[i].slot = i - 1
              /\ Chain(n)[i].parent = hash(Chain(n)[i - 1])

C2_Witness ==
    \E n \in DOMAIN tc :
        Len(Chain(n)) >= 3 /\ ret.op = "block" /\ ret.ok

\* The VDF and PoW checks of a block against difficulty d.
PassesVdfAndPow(b, d) ==
    /\ b.vdf_proof = compute_vdf(evaluate(b.parent, b.slot), AsU32(d))
    /\ meets_difficulty(b, d)

\* C3: a block is only ever appended by an add_block call in which its VDF
\* proof was the expected one and its digest met the PoW target, both for
\* the difficulty the Timechain had at that moment: the node's Timechain
\* when a block arrives, the candidate replaying the preceding blocks when a
\* peer chain is adopted or the chain file is loaded.
C3_AcceptedBlocksPassedVdfAndPow ==
    [][\A n \in DOMAIN tc :
          /\ (ret'.op = "block" /\ Chain(n)' # Chain(n))
                => PassesVdfAndPow(Last(Chain(n)'), tc[n].difficulty)
          /\ (ret'.op = "chain" /\ ret'.ok)
                => \A i \in 2..Len(Chain(n)') :
                      PassesVdfAndPow(Chain(n)'[i],
                          ReplayPeer(Timechain_new(genesis),
                                     SubSeq(Chain(n)', 1, i - 1), 2).tc.difficulty)
          /\ ret'.op = "restart"
                => \A i \in 2..Len(Chain(n)') :
                      PassesVdfAndPow(Chain(n)'[i],
                          LoadReplay(Timechain_new(genesis),
                                     SubSeq(Chain(n)', 2, i - 1), 1).difficulty)
      ]_vars

C3_Witness ==
    \E n \in DOMAIN tc :
        /\ Len(Chain(n)) >= 3
        /\ tc[n].difficulty # INITIAL_DIFFICULTY
        /\ ret.op = "block" /\ ret.ok

\* The hypotheses of C4 on block b submitted to Timechain t.
C4_Hypotheses(t, b) ==
    /\ calculate_hash(b) \notin t.seen_hashes
    /\ b.parent = hash(Last(t.blocks))
    /\ b.slot = Len(t.blocks)
    /\ PassesVdfAndPow(b, t.difficulty)
    /\ b.zk_proof = ZK_PROOF_LEN
    /\ b.miner # ZeroAddress
    /\ ApplyTxs(t.state, b.transactions).ok

\* C4: a block that is new, extends the tip, has the right slot, VDF proof,
\* PoW, zk_proof length and a nonzero miner, and whose transactions apply in
\* order, is accepted: add_block returns Ok, the chain grows by that block,
\* its digest is in seen_hashes, the miner is credited reward(slot),
\* total_issued grows by reward(slot) and the transactions are applied.
C4_ValidBlockIsAccepted ==
    [][\A n \in DOMAIN tc : \A in \in BlockInputs(n) :
          (/\ ret'.op = "block"
           /\ C4_Hypotheses(tc[n], in[1])
           /\ RecvBlock(n, in[1], in[2]))
          => /\ ret'.ok
             /\ Chain(n)' = Append(Chain(n), in[1])
             /\ calculate_hash(in[1]) \in tc'[n].seen_hashes
             /\ tc'[n].total_issued
                   = tc[n].total_issued + get_mining_reward(in[1].slot)
             /\ tc'[n].state
                   = ApplyTxs(credit(tc[n].state, in[1].miner,
                                     get_mining_reward(in[1].slot)),
                              in[1].transactions).st
      ]_vars

\* C5: the account state and total_issued of a Timechain are what
\* rebuild_state computes from its block list.
C5_StateIsReplayOfBlocks ==
    \A n \in DOMAIN tc :
        /\ tc[n].state = rebuild_state(tc[n]).state
        /\ tc[n].total_issued = rebuild_state(tc[n]).total_issued

\* C9: a restart reloads the chain that was saved: the block list after the
\* replay is the block list of the chain file.
C9_RestartRestoresSavedChain ==
    [][\A n \in DOMAIN tc :
          (ret'.op = "restart" /\ saved[n].some)
              => Chain(n)' = saved[n].blocks]_vars

\* The work of a block list, as the fork choice counts it.
Work(blocks) ==
    LET RECURSIVE W(_)
        W(i) == IF i = 0 THEN 0
                ELSE (IF blocks[i].nonce > 1 THEN blocks[i].nonce ELSE 1) + W(i - 1)
    IN  W(Len(blocks))

\* Every block of c after the first is accepted, in order, by a fresh chain.
FullyValid(c) == ReplayPeer(Timechain_new(genesis), c, 2).valid

\* The adoption rule of C6 for payload c at a node holding `local`.
C6_Rule(c, local) ==
    /\ c # <<>>
    /\ c[1] = local[1]
    /\ FullyValid(c)
    /\ (Len(c) > Len(local) \/ Work(c) > Work(local))

C7_RejectedChainChangesNothing ==
    [][\A n \in DOMAIN tc : \A c \in BadChains(Chain(n)) \cup inbox[n] :
          (ret'.op = "chain" /\ RecvChain(n, c) /\ ~C6_Rule(c, Chain(n)))
          => /\ tc' = tc
             /\ saved' = saved
             /\ \A m \in DOMAIN inbox : m # n => inbox'[m] = inbox[m]
      ]_vars

\* a chain with a valid prefix and an invalid last block was rejected by a
\* node that holds blocks and has a peer
C7_Witness ==
    /\ ret.op = "chain" /\ ~ret.ok /\ ret.err = "invalid block"
    /\ \E n \in DOMAIN tc : Len(Chain(n)) >= 2
    /\ Cardinality(DOMAIN tc) >= 2

\* C8: once no new block arrives, nodes that keep exchanging their chains
\* eventually stop adopting each other's chain.
C8_GossipSettles ==
    <>[](~(ret.op = "block" /\ ret.ok)) => <>[](~(ret.op = "chain" /\ ret.ok))

\* What apply_tx is asked to do on st: the sender's balance, nonce and cost.
Affordable(st, tx) ==
    /\ st.balances[tx.from] >= tx.amount + tx.fee
    /\ tx.nonce = st.nonces[tx.from]

\* After a successful apply_tx only the sender's nonce, the sender's balance
\* and the recipient's balance may differ.
OthersUntouched(st, after, tx) ==
    /\ \A a \in Addresses \ {tx.from, tx.to} : after.balances[a] = st.balances[a]
    /\ \A a \in Addresses \ {tx.from} : after.nonces[a] = st.nonces[a]
    /\ after.nonces[tx.from] = st.nonces[tx.from] + 1
    /\ after.total_issued = st.total_issued

\* C11 as stated: every successful apply_tx, self-transfers included, debits
\* the sender by amount + fee, credits the recipient by amount, increments
\* the sender's nonce and touches nothing else.
C11_ApplyTxMovesAmountAndFee ==
    \A tx \in TxInputs :
        LET r == apply_tx(acct.state, tx)
        IN  r.ok =>
              /\ r.st.balances[tx.from]
                    = acct.state.balances[tx.from] - (tx.amount + tx.fee)
              /\ r.st.balances[tx.to] = acct.state.balances[tx.to] + tx.amount
              /\ OthersUntouched(acct.state, r.st, tx)

\* C11 amended: the same for from # to; a successful self-transfer costs the
\* sender the fee only.
C11_ApplyTxEffect ==
    \A tx \in TxInputs :
        LET r == apply_tx(acct.state, tx)
        IN  r.ok =>
              /\ tx.from # tx.to =>
                    /\ r.st.balances[tx.from]
                          = acct.state.balances[tx.from] - (tx.amount + tx.fee)
                    /\ r.st.balances[tx.to]
                          = acct.state.balances[tx.to] + tx.amount
              /\ tx.from = tx.to =>
                    r.st.balances[tx.from] = acct.state.balances[tx.from] - tx.fee
              /\ OthersUntouched(acct.state, r.st, tx)

\* a transfer from address 1 to address 2 that carried a fee was applied
C11_Witness ==
    /\ ret.op = "apply_tx" /\ ret.ok
    /\ acct.state.nonces[1] = 1 /\ acct.state.nonces[2] = 0
    /\ acct.state.balances[1] = 20 /\ acct.state.balances[2] = 25

\* C12: apply_tx returns an error, leaving balances, nonces and total_issued
\* as they were, exactly when the sender's balance is below amount + fee or
\* the transaction's nonce is not the sender's nonce; otherwise it succeeds.
C12_ApplyTxFailsExactlyWhenUnaffordable ==
    \A tx \in TxInputs :
        LET r == apply_tx(acct.state, tx)
        IN  /\ r.ok <=> Affordable(acct.state, tx)
            /\ ~r.ok => r.st = acct.state

\* a funded sender's transaction was refused for its nonce
C12_Witness ==
    /\ ret.op = "apply_tx" /\ ~ret.ok /\ ret.err = "Invalid nonce"
    /\ acct.state.balances[1] >= 30

\* C13: rollback to a snapshot restores balances, nonces and total_issued
\* to what they were when the snapshot was taken, whatever was applied in
\* between and whether it succeeded.
C13_RollbackRestoresSnapshot ==
    [][ret'.op = "rollback" => acct'.state = acct.base]_vars

\* a rollback undid what was applied after the snapshot
C13_Witness ==
    /\ ret.op = "rollback" /\ ret.err = "undone"
    /\ acct.state = acct.base
    /\ acct.base.nonces[1] >= 1

\* The rewards of the blocks of a chain that name a engine.
RECURSIVE RewardsOf(_)
RewardsOf(blocks) ==
    IF blocks = <<>> THEN 0
    ELSE (IF Last(blocks).miner # ZeroAddress
          THEN get_mining_reward(Last(blocks).slot) ELSE 0)
         + RewardsOf(SubSeq(blocks, 1, Len(blocks) - 1))

\* What a chain with one block in every slot of every era can issue.
RECURSIVE IssuedThroughEra(_)
IssuedThroughEra(era) ==
    IF era < 0 THEN 0
    ELSE HALVING_INTERVAL * get_mining_reward(era * HALVING_INTERVAL)
         + IssuedThroughEra(era - 1)

\* C14: total_issued of a chain is the sum of reward(slot) over its blocks
\* with a nonzero miner, and is at most TOTAL_SUPPLY; so is what a chain
\* filling every slot of all 64 eras issues.
C14_IssuedIsSumOfRewards ==
    /\ \A n \in DOMAIN tc :
          /\ tc[n].total_issued = RewardsOf(Chain(n))
          /\ tc[n].total_issued <= TOTAL_SUPPLY
    /\ IssuedThroughEra(63) <= TOTAL_SUPPLY

\* a chain of two rewarded blocks after the genesis block
C14_Witness ==
    \E n \in DOMAIN tc :
        /\ Len(Chain(n)) = 3
        /\ tc[n].total_issued = 2 * INITIAL_REWARD
        /\ Chain(n)[1].miner = ZeroAddress

\* The transactions of a pool that hold the (from, nonce) pair of tx.
SameSenderNonce(mp, tx) ==
    {h \in DOMAIN mp.transactions :
        /\ mp.transactions[h].from = tx.from
        /\ mp.transactions[h].nonce = tx.nonce}

\* tx passes the three checks add makes before it looks at the capacity.
Admissible(mp, tx) ==
    /\ tx.size <= mp.max_tx_size
    /\ Transaction_hash(tx) \notin DOMAIN mp.transactions
    /\ SameSenderNonce(mp, tx) = {}

\* The lowest fee among the transactions of a non-empty pool.
LowestFeeIn(mp) ==
    CHOOSE f \in {mp.transactions[h].fee : h \in DOMAIN mp.transactions} :
        \A h \in DOMAIN mp.transactions : f <= mp.transactions[h].fee

\* C16: Mempool::add rejects a transaction whose digest is in the pool with
\* DuplicateTransaction, one whose size exceeds max_tx_size with
\* TransactionTooLarge, and one whose (from, nonce) pair is held by another
\* transaction of the pool with NullifierUsed, whatever its fee; a rejected
\* add leaves the transaction map, the indices and the nullifiers as they were.
C16_AddRejectsAndLeavesPool ==
    ret.op = "add" =>
        LET mp == pool.prev
            tx == pool.tx
        IN  /\ Transaction_hash(tx) \in DOMAIN mp.transactions
                  => ~ret.ok /\ ret.err = "DuplicateTransaction"
            /\ tx.size > mp.max_tx_size
                  => ~ret.ok /\ ret.err = "TransactionTooLarge"
            /\ ( /\ SameSenderNonce(mp, tx) # {}
                 /\ Transaction_hash(tx) \notin DOMAIN mp.transactions
                 /\ tx.size <= mp.max_tx_size )
                  => ~ret.ok /\ ret.err = "NullifierUsed"
            /\ ~ret.ok => pool.mp = pool.prev

\* a higher-fee transaction refused because its (from, nonce) is taken
C16_Witness ==
    /\ ret.op = "add"
    /\ ret.err = "NullifierUsed"
    /\ pool.tx.fee = 15
    /\ \E h \in SameSenderNonce(pool.prev, pool.tx) :
          pool.prev.transactions[h].fee = 5
    /\ pool.mp = pool.prev

\* C17: when the pool holds max_size transactions, add of an admissible
\* transaction whose fee exceeds the lowest fee in the pool evicts exactly
\* one transaction of that lowest fee and inserts the new one, so the size
\* stays max_size; with a fee at or below the lowest fee it returns
\* FeeTooLow and nothing changes.
C17_FullPoolEvictsLowestOrRefuses ==
    ( /\ ret.op = "add"
      /\ Admissible(pool.prev, pool.tx)
      /\ DOMAIN pool.prev.transactions # {}
      /\ Mempool_len(pool.prev) = pool.prev.max_size )
    => LET before == DOMAIN pool.prev.transactions
           after == DOMAIN pool.mp.transactions
       IN  IF pool.tx.fee > LowestFeeIn(pool.prev)
           THEN /\ ret.ok
                /\ \E v \in before :
                      /\ pool.prev.transactions[v].fee = LowestFeeIn(pool.prev)
                      /\ after = (before \ {v}) \cup {Transaction_hash(pool.tx)}
                /\ \A h \in after : pool.mp.transactions[h] =
                      IF h \in before THEN pool.prev.transactions[h] ELSE pool.tx
                /\ Mempool_len(pool.mp) = pool.mp.max_size
           ELSE /\ ~ret.ok
                /\ ret.err = "FeeTooLow"
                /\ pool.mp = pool.prev

\* capacity 2 holding fees 5 and 10: fee 15 evicts the fee-5 transaction
C17_Witness ==
    /\ ret.op = "add"
    /\ ret.ok
    /\ pool.prev.max_size = 2
    /\ {pool.prev.transactions[h].fee : h \in DOMAIN pool.prev.transactions} = {5, 10}
    /\ pool.tx.fee = 15
    /\ {pool.mp.transactions[h].fee : h \in DOMAIN pool.mp.transactions} = {10, 15}

\* C18: after any sequence of add, remove, remove_batch and clear on a
\* Mempool built with capacity max_size, 0 included, len() <= max_size.
C18_LenWithinCapacity == Mempool_len(pool.mp) <= pool.mp.max_size

\* C19: get_for_mining(max) returns at most max transactions (none when max
\* is 0), all distinct and in the pool, in non-increasing fee order, and no
\* transaction left out has a higher fee than one returned.
C19_GetForMiningTakesTopFees ==
    ret.op = "get_for_mining" =>
        LET out == pool.out
            held == {pool.mp.transactions[h] : h \in DOMAIN pool.mp.transactions}
            taken == {out[i] : i \in DOMAIN out}
        IN  /\ Len(out) <= pool.max
            /\ pool.max = 0 => out = <<>>
            /\ \A i, j \in DOMAIN out : out[i] = out[j] => i = j
            /\ taken \subseteq held
            /\ \A i, j \in DOMAIN out : i < j => out[i].fee >= out[j].fee
            /\ \A tx \in held \ taken : \A i \in DOMAIN out : out[i].fee >= tx.fee

\* C20: per peer, each of the first 100 messages of a 60-second window is
\* passed on to its topic handler if the guardian trusts the peer, and every
\* message beyond the 100th is discarded without any effect on the chain,
\* the mempool or the outgoing messages.
C20_FirstHundredHandledRestDiscarded ==
    /\ [](( /\ gate.last.peer \in Peers
            /\ gate.last.count <= RATE_LIMIT
            /\ gate.last.trusted ) => ret.op \in {"request", "block", "tx"})
    /\ [][(gate'.last.peer \in Peers /\ gate'.last.count > RATE_LIMIT)
            => /\ ret'.op = "discard"
               /\ UNCHANGED <<tc, saved, inbox>>
               /\ gate'.mempool = gate.mempool]_vars

\* The i-th interval of a header history.
Interval(headers, i) == headers[i + 1].timestamp - headers[i].timestamp

\* The LWMA was run on a full window of headers that all carry difficulty D.
LwmaRanOn(D) ==
    /\ lwma.out # 0
    /\ Len(lwma.headers) >= LWMA_WINDOW + 1
    /\ \A i \in DOMAIN lwma.headers : lwma.headers[i].difficulty = D

AllAtTarget(headers) ==
    \A i \in 1..(Len(headers) - 1) : Interval(headers, i) = TARGET_BLOCK_TIME

\* C21 as stated: for a history of at least LWMA_WINDOW + 1 headers at the
\* target interval with constant difficulty D, whatever D is, the result
\* lies in [0.9 D, 1.1 D].
C21_StableWithinTenPercent ==
    \A D \in {lwma.headers[i].difficulty : i \in DOMAIN lwma.headers} :
        (LwmaRanOn(D) /\ AllAtTarget(lwma.headers))
            => 9 * D <= 10 * lwma.out /\ 10 * lwma.out <= 11 * D

\* C21, amended: the same for a constant difficulty D >= MIN_DIFFICULTY; the
\* result is then D itself.
C21_StableWithinTenPercentAboveMin ==
    \A D \in {lwma.headers[i].difficulty : i \in DOMAIN lwma.headers} :
        (LwmaRanOn(D) /\ AllAtTarget(lwma.headers) /\ D >= MIN_DIFFICULTY)
            => /\ 9 * D <= 10 * lwma.out /\ 10 * lwma.out <= 11 * D
               /\ lwma.out = D

\* 100 headers at 1800 s with difficulty 100_000
C21_Witness ==
    /\ LwmaRanOn(100 * MIN_DIFFICULTY)
    /\ AllAtTarget(lwma.headers)
    /\ Len(lwma.headers) = MaxHeaders
    /\ lwma.out = 100 * MIN_DIFFICULTY

\* C22: when the most recent headers of the window come faster than the
\* target interval after a history at the target interval, all with
\* difficulty D, the result is strictly greater than D.
C22_FasterBlocksRaiseDifficulty ==
    \A D \in {lwma.headers[i].difficulty : i \in DOMAIN lwma.headers} :
        ( /\ LwmaRanOn(D)
          /\ \E k \in 1..LWMA_WINDOW :
                /\ \A i \in 1..(Len(lwma.headers) - 1) :
                      IF i >= Len(lwma.headers) - k
                      THEN Interval(lwma.headers, i) < TARGET_BLOCK_TIME
                      ELSE Interval(lwma.headers, i) = TARGET_BLOCK_TIME )
            => lwma.out > D

\* The reward schedule that the constants of chain.rs describe.
ChainRsReward(slot) ==
    ShiftRight(CHAIN_INITIAL_REWARD, slot \div CHAIN_HALVING_INTERVAL)

RECURSIVE ChainRsRewardsOf(_)
ChainRsRewardsOf(blocks) ==
    IF blocks = <<>> THEN 0
    ELSE (IF Head(blocks).miner # ZeroAddress
          THEN ChainRsReward(Head(blocks).slot) ELSE 0)
         + ChainRsRewardsOf(Tail(blocks))

\* C23: block_reward(0, 0) is 50_000_000_000 (500 AXM) and
\* block_reward(2_100_000, 0) is 25_000_000_000 (250 AXM): what add_block
\* credits follows INITIAL_REWARD and HALVING_INTERVAL of chain.rs.
C23_RewardFollowsChainRsConstants ==
    \A n \in DOMAIN tc :
        /\ tc[n].total_issued = ChainRsRewardsOf(tc[n].blocks)
        /\ block_reward(0, tc[n].total_issued) = CHAIN_INITIAL_REWARD
        /\ block_reward(CHAIN_HALVING_INTERVAL, tc[n].total_issued)
              = CHAIN_INITIAL_REWARD \div 2

\* A block offered to Timechain t with the things in `faults` wrong with it.
FaultyBlock(t, faults, k) ==
    LET parent == IF "parent" \in faults THEN ZeroHash
                  ELSE hash(Last(t.blocks))
        slot == IF "slot" \in faults THEN Len(t.blocks) + 1 ELSE Len(t.blocks)
    IN  Block(parent, slot,
              IF "miner" \in faults THEN ZeroAddress ELSE 1,
              IF "txs" \in faults THEN <<t3>> ELSE <<>>,
              IF "vdf" \in faults THEN JunkHash
              ELSE compute_vdf(evaluate(parent, slot), AsU32(t.difficulty)),
              IF "zk" \in faults THEN ZK_PROOF_LEN \div 2 ELSE ZK_PROOF_LEN,
              k)

FaultyBlocks(t) ==
    {FaultyBlock(t, faults, k) :
        faults \in SUBSET {"parent", "slot", "miner", "txs", "vdf", "zk"},
        k \in {0, MaxNonce}}
    \cup {[Last(t.blocks) EXCEPT !.transactions = txs] : txs \in {<<>>, <<t3>>}}

\* The checks of the validator in the order of the claim, and whether the
\* block fails each of them on its own.
CheckOrder ==
    <<"duplicate", "structural", "vdf", "pow", "zk", "transactions">>

FailsCheck(t, block, check) ==
    CASE check = "duplicate" -> calculate_hash(block) \in t.seen_hashes
      [] check = "structural" ->
            \/ block.parent # hash(Last(t.blocks))
            \/ block.slot # Len(t.blocks)
            \/ block.zk_proof # ZK_PROOF_LEN
            \/ block.miner = ZeroAddress
      [] check = "vdf" -> InvalidVdf(t, block)
      [] check = "pow" -> ~meets_difficulty(block, t.difficulty)
      [] check = "zk" ->
            ~verify_zk_pass(block.miner, block.parent, block.zk_proof)
      [] check = "transactions" -> InvalidTransactions(t, block)

\* The checks an error of add_block reports as failed.
ChecksOfError(err) ==
    CASE err = "Block already exists" -> {"duplicate"}
      [] err = "Invalid parent hash" -> {"structural"}
      [] err = "Invalid block slot" -> {"structural"}
      [] err = "Invalid VDF proof" -> {"vdf"}
      [] err = "Block doesn't meet difficulty requirement" -> {"pow"}
      [] err = "Invalid miner ZK pass" -> {"structural", "zk"}
      [] err = "Invalid transaction" -> {"transactions"}
      [] OTHER -> {}

\* C24: a block that fails more than one check is refused with the failure
\* of the first failing check in the order duplicate guard, structural
\* (parent, slot, zk_proof length, nonzero miner), VDF, PoW, miner ZK
\* predicate, transactions.
C24_FirstFailingCheckIsReported ==
    \A n \in DOMAIN tc : \A block \in FaultyBlocks(tc[n]) :
        LET failing == {i \in DOMAIN CheckOrder :
                          FailsCheck(tc[n], block, CheckOrder[i])}
            r == add_block(tc[n], block, TARGET_TIME)
        IN  failing # {} =>
              /\ ~r.ok
              /\ \E i \in failing :
                    /\ \A j \in failing : i <= j
                    /\ CheckOrder[i] \in ChecksOfError(r.err)

\* C25: a chain that an honest node built block by block with add_block,
\* under whatever difficulty it had at the time, and that is strictly longer
\* than the receiver's chain is fully validated by the receiver's
\* validate_and_sync_chain and adopted.
C25_LongerHonestChainIsAdopted ==
    \A n \in DOMAIN tc : \A m \in DOMAIN tc :
        Len(tc[m].blocks) > Len(tc[n].blocks)
            => LET v == validate_and_sync_chain(tc[m].blocks, tc[n])
               IN  v.some /\ v.tc.blocks = tc[m].blocks

\* C26: chain adoption never replaces the local chain with a strictly
\* shorter one; cumulative work only breaks ties between equal lengths.
C26_AdoptionNeverShortens ==
    \A n \in DOMAIN tc : \A m \in DOMAIN tc :
        LET v == validate_and_sync_chain(tc[m].blocks, tc[n])
        IN  v.some => Len(v.tc.blocks) >= Len(tc[n].blocks)

\* C27: on a miner tick a mining attempt starts exactly when at least
\* TARGET_TIME seconds have passed since the last block was accepted into
\* the local chain, whichever handler accepted it.
C27_AttemptStartsAtTargetTime ==
    engine.last.op \in {"idle", "mine"}
        => (engine.last.op = "mine" <=> engine.last.since >= TARGET_TIME)

\* Blocks a peer may send after a failed attempt: mined on the tip and at
\* the difficulty the node had before it, or has after it.
BlocksAround(before, after) ==
    {BuildBlock(before.blocks, 1, <<>>, before.difficulty, 0),
     BuildBlock(after.blocks, 1, <<>>, after.difficulty, 0)}

\* C28: a mining attempt that finds no nonce leaves the set of blocks that
\* add_block accepts from peers as it was.
C28_FailedAttemptKeepsAcceptedBlocks ==
    (engine.last.op = "mine" /\ ~engine.last.ok)
        => \A b \in BlocksAround(engine.last.before, tc[Local]) :
              add_block(engine.last.before, b, TARGET_TIME).ok
                  <=> add_block(tc[Local], b, TARGET_TIME).ok

InMempool(tx) == \E i \in DOMAIN engine.mempool : engine.mempool[i] = tx

\* C29: a mining attempt that ends without an added block leaves its
\* selected transactions in the mempool, and a block accepted from a peer
\* removes its transactions from the mempool.
C29_MempoolFollowsTheChain ==
    /\ (engine.last.op = "mine" /\ ~engine.last.ok)
          => \A i \in DOMAIN engine.last.txs : InMempool(engine.last.txs[i])
    /\ (engine.last.op \in {"block", "other", "response"} /\ engine.last.ok)
          => \A i \in DOMAIN engine.last.txs : ~InMempool(engine.last.txs[i])

\* C30: in any interval of 60 seconds at most RATE_LIMIT messages of a
\* single peer pass the rate limiter, wherever the interval starts relative
\* to the peer's counting window and to the periodic counter reset.  The
\* messages that passed at one reading of the clock lie in one such interval.
C30_AtMostRateLimitPerWindow ==
    \A p \in Peers : limiter.passed[p] <= RATE_LIMIT

\* C31: a ChainRequest{start_height} is answered with exactly the blocks of
\* the chain from index start_height to the tip, in order (nothing when
\* start_height is at or past the chain length), and handling it changes
\* neither the chain, nor the chain file, nor the mempool.
C31_RequestAnswersSuffixAndChangesNothing ==
    /\ [](engine.last.op = "request" =>
            LET blocks == tc[Local].blocks
                start == engine.last.start
                sent == engine.last.blocks
            IN  /\ Len(sent) = Max(Len(blocks) - start, 0)
                /\ \A i \in 1..Len(sent) : sent[i] = blocks[start + i])
    /\ [][engine'.last.op = "request" =>
            /\ UNCHANGED <<tc, saved, inbox>>
            /\ engine'.mempool = engine.mempool]_vars

C31_Witness ==
    /\ engine.last.op = "request"
    /\ engine.last.start = 1
    /\ Len(tc[Local].blocks) = 3
    /\ Len(engine.last.blocks) = 2
    /\ engine.mempool # <<>>

\* How often digest h is in the list of sender a.
TimesListed(mp, a, h) ==
    Cardinality({i \in DOMAIN mp.by_sender[a] : mp.by_sender[a][i] = h})

\* C32: after any sequence of add (with or without eviction), remove,
\* remove_batch and clear, every pooled digest is once in the by_fee bucket
\* of its own fee and in no other, once in its sender's by_sender list and
\* in no other, no index holds an unpooled digest or an empty bucket, and
\* the nullifier set has exactly one entry per pooled transaction.
C32_IndexesMatchThePool ==
    LET mp == pool.mp
        pooled == DOMAIN mp.transactions
    IN  /\ \A h \in pooled :
              LET tx == mp.transactions[h]
              IN  /\ tx.fee \in DOMAIN mp.by_fee
                  /\ \A f \in DOMAIN mp.by_fee : h \in mp.by_fee[f] <=> f = tx.fee
                  /\ tx.from \in DOMAIN mp.by_sender
                  /\ \A a \in DOMAIN mp.by_sender :
                        TimesListed(mp, a, h) = IF a = tx.from THEN 1 ELSE 0
        /\ \A f \in DOMAIN mp.by_fee :
              mp.by_fee[f] # {} /\ mp.by_fee[f] \subseteq pooled
        /\ \A a \in DOMAIN mp.by_sender :
              /\ mp.by_sender[a] # <<>>
              /\ \A i \in DOMAIN mp.by_sender[a] : mp.by_sender[a][i] \in pooled
        /\ mp.nullifiers = {Nullifier(mp.transactions[h]) : h \in pooled}
        /\ Cardinality(mp.nullifiers) = Cardinality(pooled)

\* an eviction from a full pool of two transactions of one sender
C32_Witness ==
    /\ ret.op = "add"
    /\ ret.ok
    /\ Mempool_len(pool.prev) = 2
    /\ pool.prev.max_size = 2
    /\ Mempool_len(pool.mp) = 2
    /\ \E a \in DOMAIN pool.prev.by_sender : Len(pool.prev.by_sender[a]) = 2
    /\ DOMAIN pool.mp.transactions # DOMAIN pool.prev.transactions
                                       \cup {Transaction_hash(pool.tx)}

\* No add of a transaction with the (from, nonce) of tx is refused because
\* the nullifier is taken.
NullifierFree(mp, tx) ==
    \A again \in PoolTxInputs :
        (again.from = tx.from /\ again.nonce = tx.nonce)
            => \A victim \in Victims(mp) :
                  Mempool_add(mp, again, victim).err # "NullifierUsed"

\* Digest h is in no index of mp and the nullifier of tx is free again.
Forgotten(mp, h, tx) ==
    /\ h \notin DOMAIN mp.transactions
    /\ \A f \in DOMAIN mp.by_fee : h \notin mp.by_fee[f]
    /\ \A a \in DOMAIN mp.by_sender : TimesListed(mp, a, h) = 0
    /\ Nullifier(tx) \notin mp.nullifiers
    /\ NullifierFree(mp, tx)

\* C33: remove(digest) of a pooled transaction returns it and deletes it
\* from the transaction map, both indexes and the nullifier set, so that a
\* transaction with the same (from, nonce) can be added afterwards, and the
\* same holds for an evicted transaction; remove of a digest that is not
\* pooled returns None and changes nothing.
C33_RemoveForgetsTheTransaction ==
    /\ ret.op = "remove" =>
          IF ret.ok
          THEN /\ Len(pool.out) = 1
               /\ Transaction_hash(pool.out[1]) \in DOMAIN pool.prev.transactions
               /\ pool.prev.transactions[Transaction_hash(pool.out[1])] = pool.out[1]
               /\ Forgotten(pool.mp, Transaction_hash(pool.out[1]), pool.out[1])
               /\ DOMAIN pool.mp.transactions =
                     DOMAIN pool.prev.transactions \ {Transaction_hash(pool.out[1])}
               /\ \A again \in PoolTxInputs :
                     ( /\ again.from = pool.out[1].from
                       /\ again.nonce = pool.out[1].nonce
                       /\ again.size <= pool.mp.max_tx_size )
                     => \A victim \in Victims(pool.mp) :
                           Mempool_add(pool.mp, again, victim).ok
          ELSE pool.out = <<>> /\ pool.mp = pool.prev
    /\ (ret.op = "add" /\ ret.ok) =>
          \A h \in DOMAIN pool.prev.transactions \ DOMAIN pool.mp.transactions :
              Forgotten(pool.mp, h, pool.prev.transactions[h])

\* a removal from a pool of two transactions of one sender
C33_Witness ==
    /\ ret.op = "remove"
    /\ ret.ok
    /\ Mempool_len(pool.prev) = 2
    /\ Mempool_len(pool.mp) = 1
    /\ \E h \in DOMAIN pool.mp.transactions :
          pool.mp.transactions[h].from = pool.out[1].from

RECURSIVE SumOver(_, _)
SumOver(S, f) ==
    IF S = {} THEN 0
    ELSE LET x == CHOOSE y \in S : TRUE
         IN  f[x] + SumOver(S \ {x}, f)

SumOfBalances(st) == SumOver(Addresses, [a \in Addresses |-> balance(st, a)])

\* The transactions blocks carry, one per sender and nonce: those below the
\* sender's account nonce are the applied ones.
KnownTxs == {t1, t2, t3}
FeesApplied(st) ==
    SumOver(KnownTxs,
            [tx \in KnownTxs |-> IF tx.nonce < nonce(st, tx.from) THEN tx.fee
                                 ELSE 0])

\* C34: in every reachable chain state the sum of all balances equals
\* total_issued minus the fees of the applied transactions, and never
\* exceeds total_issued.
C34_BalancesAreIssuedMinusFees ==
    \A n \in DOMAIN tc :
        /\ SumOfBalances(tc[n].state)
              = tc[n].total_issued - FeesApplied(tc[n].state)
        /\ SumOfBalances(tc[n].state) <= tc[n].total_issued

\* two rewards issued, both fee-paying transactions of address 1 applied
C34_Witness ==
    /\ tc[Local].total_issued = 2 * INITIAL_REWARD
    /\ nonce(tc[Local].state, 1) = 2
    /\ SumOfBalances(tc[Local].state) = 2 * INITIAL_REWARD - 10

\* C35: the rewards of HALVING_INTERVAL blocks in every era sum to at least
\* 99% of TOTAL_SUPPLY and at most TOTAL_SUPPLY, validate_economics returns
\* Ok, and calculate_total_supply(40 * HALVING_INTERVAL) is at least 99% of
\* TOTAL_SUPPLY.
C35_ScheduleExhaustsTheCap ==
    /\ ret.op = "validate_economics"
          => /\ ~AmountLess(econ.total, NinetyNinePercent)
             /\ ~AmountLess(AmountOf(TOTAL_SUPPLY), econ.total)
             /\ econ.verdict = "Ok"
    /\ (ret.op = "calculate_total_supply"
           /\ econ.height = 40 * HALVING_INTERVAL)
          => ~AmountLess(econ.supply, NinetyNinePercent)

\* C36: Block::meets_difficulty(d) is true exactly when the digest read as a
\* big-endian integer is <= max_target / d, agrees with
\* consensus::lwma::meets_difficulty for every digest and every d >= 1, and
\* takes d = 0 as the maximum target.
C36_BlockCheckIsTheTargetCheck ==
    (ret.op = "meets_difficulty" /\ lwma.done)
        => /\ lwma.difficulty >= 1
                => /\ lwma.block
                       = (from_bytes_be(lwma.digest)
                            <= max_target \div lwma.difficulty)
                   /\ lwma.block = lwma.consensus
           /\ lwma.difficulty = 0
                => lwma.block = (from_bytes_be(lwma.digest) <= max_target)

\* C37: calculate_lwma_difficulty returns exactly MIN_DIFFICULTY for fewer
\* than LWMA_WINDOW + 1 headers, and at least MIN_DIFFICULTY for every input.
C37_ShortHistoryGivesMinDifficulty ==
    lwma.out # 0
        => /\ Len(lwma.headers) < LWMA_WINDOW + 1 => lwma.out = MIN_DIFFICULTY
           /\ lwma.out >= MIN_DIFFICULTY

\* 60 headers, one short of the window
C37_Witness ==
    /\ Len(lwma.headers) = LWMA_WINDOW
    /\ lwma.out = MIN_DIFFICULTY

\* the mean difficulty of the last LWMA_WINDOW headers
AvgDifficulty(headers) ==
    SumDifficulties(SubSeq(headers, Len(headers) - LWMA_WINDOW, Len(headers)),
                    LWMA_WINDOW) \div LWMA_WINDOW

\* C38: for at least LWMA_WINDOW + 1 headers the value computed before the
\* MIN_DIFFICULTY floor lies between avg_difficulty / 3 and
\* 3 * avg_difficulty, whatever the timestamps are.
C38_AdjustmentWithinFactorThree ==
    (lwma.out # 0 /\ Len(lwma.headers) >= LWMA_WINDOW + 1)
        => /\ 3 * lwma.raw >= AvgDifficulty(lwma.headers)
           /\ lwma.raw <= 3 * AvgDifficulty(lwma.headers)

\* C39: the verdict of add_block depends only on the block and the current
\* block list: two nodes that hold identical block lists accept or reject any
\* given block identically, whatever the elapsed times under which their
\* earlier blocks were accepted.
C39_VerdictDependsOnBlockListOnly ==
    \A n \in DOMAIN tc : \A m \in DOMAIN tc :
        tc[n].blocks = tc[m].blocks
            => \A d \in {tc[n].difficulty, tc[m].difficulty} :
                  LET given == BuildBlock(tc[n].blocks, 1, <<>>, d, 0)
                  IN  add_block(tc[n], given, TARGET_TIME).ok
                          <=> add_block(tc[m], given, TARGET_TIME).ok

\* C40: along apply_tx calls on a State started from State::new and never
\* rolled back, each address's nonce never decreases and equals the number of
\* its successfully applied transactions, and no transaction is applied
\* successfully twice.
C40_NonceCountsAppliedTransactions ==
    /\ [](/\ \A a \in Addresses : nonce(acct.state, a) = acct.applied[a]
          /\ ~acct.twice
          /\ acct.done = {<<a, k>> \in Addresses \X (0..(MaxAcctNonce + 1)) :
                              k < nonce(acct.state, a)})
    /\ [][\A a \in Addresses :
              nonce(acct'.state, a) >= nonce(acct.state, a)]_vars

\* both senders have had transactions applied, one of them two
C40_Witness ==
    /\ ret.op = "apply_tx"
    /\ acct.applied[1] = 2
    /\ acct.applied[2] = 1
    /\ nonce(acct.state, 1) = 2

\* x >> k on a value below 2^31.
Shr(x, k) == IF k >= 31 THEN 0 ELSE x \div (2 ^ k)


\* C15: get_mining_reward(slot) is INITIAL_REWARD >> min(slot /
\* HALVING_INTERVAL, 63): the initial reward below the first halving, half
\* the previous era's reward at each multiple of HALVING_INTERVAL,
\* non-increasing in the slot, and 0 from slot 64 * HALVING_INTERVAL on.
C15_RewardIsShiftedInitialReward ==
    LET era == econ.height \div HALVING_INTERVAL
    IN  /\ econ.reward = Shr(INITIAL_REWARD_DIV4, Min(era, 63))
        /\ econ.height < HALVING_INTERVAL => econ.reward = INITIAL_REWARD_DIV4
        /\ econ.height = HALVING_INTERVAL => econ.reward * 2 = INITIAL_REWARD_DIV4
        /\ econ.height = 2 * HALVING_INTERVAL
              => econ.reward * 4 = INITIAL_REWARD_DIV4
        /\ (era >= 1 /\ econ.height = era * HALVING_INTERVAL)
              => /\ econ.reward = RewardAt(econ.height - 1).reward \div 2
                 /\ RewardAt(econ.height + 1).reward = econ.reward
        /\ \A h \in Heights : h <= econ.height => RewardAt(h).reward >= econ.reward
        /\ era >= 64 => econ.reward = 0

\* the reward at the second halving
C15_Witness ==
    /\ ret.op = "get_mining_reward"
    /\ econ.height = 2 * HALVING_INTERVAL
    /\ econ.reward = 312500000

\* C10: submitting a block that add_block accepted before returns an error
\* and changes nothing, and no block occurs twice in a chain.
C10_ResubmittedBlockIsRefused ==
    [][\A n \in DOMAIN tc :
          /\ \A i, j \in 1..Len(Chain(n)') :
                Chain(n)'[i] = Chain(n)'[j] => i = j
          /\ \A i \in 2..Len(Chain(n)) :
             \A elapsed \in {TARGET_TIME - 1, TARGET_TIME, LOAD_ELAPSED} :
                (ret'.op = "block" /\ RecvBlock(n, Chain(n)[i], elapsed))
                => ~ret'.ok /\ tc' = tc /\ saved' = saved
      ]_vars

C10_Witness ==
    /\ ret.op = "block" /\ ~ret.ok /\ ret.err = "Block already exists"
    /\ \E n \in DOMAIN tc : Len(Chain(n)) >= 2

====
